---- MODULE Spec2Model ----
(***************************************************************************)
(* Model of scripts/generate-dictionary.ts: the schema flattener           *)
(* (flattenSchema), the allOf merger (mergeAllOfSchemas) and the schema    *)
(* naming cache (getSchemaName).                                           *)
(*                                                                         *)
(* Schema nodes live in `heap` and are addressed by identity (their index  *)
(* in the heap).  Set objects (the `visited` sets) live in `sets` and are  *)
(* addressed by identity too, so that a set shared between two calls and   *)
(* a copy of it (new Set(visited)) are different things.  flattenSchema    *)
(* runs as an explicit call stack, one frame per active call.              *)
(*                                                                         *)
(* A dotted field path is kept in a frame as the sequence of its           *)
(* dot-separated segments ("a.b[]" is <<"a", "b[]">>, '' is <<>>); the     *)
(* string itself is built by PathString when a record is emitted.          *)
(***************************************************************************)
EXTENDS Integers, Sequences, FiniteSets, TLC

VARIABLES
    heap,              \* the schema nodes, by identity
    root,              \* the media type's schema (mediaTypeObj.schema)
    rootPath,          \* the fieldPath of the root call
    schemaNameCache,   \* the WeakMap<Schema, string>
    sets,              \* the Set<Schema> objects, by identity
    stack,             \* the active flattenSchema calls, innermost last
    out,               \* what the root call returned
    phase,             \* "init" | "run" | "done"
    pruned,            \* the calls the cycle guard ended: read by no step
    steps,             \* the steps taken so far: read by no step
    api,               \* the dereferenced OpenAPI document
    todo,              \* what generateDataDictionary has still to go through
    fieldInstances,    \* the records collected so far
    endpoints,         \* the endpoint summary rows collected so far
    previous,          \* what an earlier generateDataDictionary ended with
    calls              \* the direct calls of a helper, each with its result

\* What belongs to generateDataDictionary and to the callers of the helpers:
\* no step of flattenSchema touches it.
driverVars == <<api, todo, fieldInstances, endpoints, previous, calls>>

vars == <<heap, root, rootPath, schemaNameCache, sets, stack, out, phase, pruned,
          steps, api, todo, fieldInstances, endpoints, previous, calls>>

(***************************************************************************)
(* Bounds of the model.                                                    *)
(***************************************************************************)
MaxNodes == 3

\* No branch of a traversal gets this deep (a document has at most
\* MaxNodes + 1 nodes, see FlattenTerminates); the guard on a call only keeps
\* the state space finite should the cycle guard fail.
MaxDepth == 2 * (MaxNodes + 1) + 1

(***************************************************************************)
(* Schema nodes.  `keys` holds the keys that are present on the object: a  *)
(* present but empty list or map is truthy in the source.  A string field  *)
(* that is absent is "", which is as falsy as undefined.                   *)
(***************************************************************************)
Schema(type, keys, properties, items, required, allOf, oneOf, anyOf, title, description) ==
    [type |-> type, keys |-> keys, properties |-> properties, items |-> items,
     required |-> required, allOf |-> allOf, oneOf |-> oneOf, anyOf |-> anyOf,
     title |-> title, description |-> description]

Has(s, key) == key \in s.keys

\* A reference that is null (or undefined) is 0; a node is 1 or more.
IsNull(ref) == ref = 0

Prop(name, schema) == [name |-> name, schema |-> schema]

(***************************************************************************)
(* Small helpers of the source.                                            *)
(***************************************************************************)
yesNo(value) == IF value THEN "Yes" ELSE "No"

\* new Set(list): the elements of a list.
SetOf(list) == {list[i] : i \in 1..Len(list)}

\* parts.join(sep)
RECURSIVE Join(_, _)
Join(parts, sep) ==
    IF parts = <<>> THEN ""
    ELSE IF Len(parts) = 1 THEN parts[1]
    ELSE parts[1] \o sep \o Join(Tail(parts), sep)

\* The dotted string of a field path.
PathString(fieldPath) == Join(fieldPath, ".")

\* fieldPath ? `${fieldPath}.${propName}` : propName
PropPath(fieldPath, propName) == Append(fieldPath, propName)

\* fieldPath: the items keep the path of their array.
ArrayPathOfArray(fieldPath) == fieldPath

\* fieldPath ? `${fieldPath}[]` : '[]'
ArrayPath(fieldPath) ==
    IF fieldPath = <<>> THEN <<"[]">>
    ELSE [fieldPath EXCEPT ![Len(fieldPath)] = @ \o "[]"]

\* fieldPath.split('.').pop() || fieldPath || fallback
LastSegment(fieldPath, fallback) ==
    IF fieldPath = <<>> THEN fallback ELSE fieldPath[Len(fieldPath)]

(***************************************************************************)
(* getSchemaName: the cached name of this very node if there is one, else  *)
(* the last segment of refPath, else the title, else 'inline/anonymous';   *)
(* whatever is returned is cached.  refPath is the sequence of the         *)
(* '/'-separated segments of the reference, <<>> when none is passed.      *)
(***************************************************************************)
Anonymous == "inline/anonymous"

\* The name is worked out again at every call.
getSchemaNameUncached(cache, schema, refPath) ==
    IF refPath # <<>> /\ Join(refPath, "/") # "" THEN refPath[Len(refPath)]
    ELSE IF heap[schema].title # "" THEN heap[schema].title
    ELSE Anonymous

\* The cache is looked up by the content of the node.
getSchemaNameByContent(cache, schema, refPath) ==
    IF \E n \in DOMAIN cache : heap[n] = heap[schema]
    THEN cache[CHOOSE n \in DOMAIN cache : heap[n] = heap[schema]]
    ELSE IF refPath # <<>> /\ Join(refPath, "/") # "" THEN refPath[Len(refPath)]
    ELSE IF heap[schema].title # "" THEN heap[schema].title
    ELSE Anonymous

getSchemaName(cache, schema, refPath) ==
    IF schema \in DOMAIN cache THEN cache[schema]
    ELSE IF refPath # <<>> /\ Join(refPath, "/") # "" THEN refPath[Len(refPath)]
    ELSE IF heap[schema].title # "" THEN heap[schema].title
    ELSE Anonymous

\* Every node is cached as anonymous.
CacheAfterAnonymous(cache, schema, refPath) ==
    IF schema \in DOMAIN cache THEN cache
    ELSE [n \in DOMAIN cache \cup {schema} |->
            IF n = schema THEN Anonymous ELSE cache[n]]

\* schemaNameCache after getSchemaName(schema, refPath).
CacheAfter(cache, schema, refPath) ==
    IF schema \in DOMAIN cache THEN cache
    ELSE [n \in DOMAIN cache \cup {schema} |->
            IF n = schema THEN getSchemaName(cache, schema, refPath) ELSE cache[n]]

\* a || b on strings
OrElse(a, b) == IF a # "" THEN a ELSE b

(***************************************************************************)
(* mergeAllOfSchemas.  `schemas` is the list of the members' identities.   *)
(***************************************************************************)
NonObjectIssue(type) == "allOf contains non-object type: " \o type

\* { ...merged, ...props }: a key that is already there keeps its place and
\* takes the new value, a new key goes to the end.
RECURSIVE Spread(_, _)
Spread(merged, props) ==
    IF props = <<>> THEN merged
    ELSE LET p == Head(props)
             at == {i \in 1..Len(merged) : merged[i].name = p.name}
         IN  Spread(IF at = {} THEN Append(merged, p)
                    ELSE [i \in 1..Len(merged) |-> IF i \in at THEN p ELSE merged[i]],
                    Tail(props))

\* [...new Set(list)]: the first occurrence of every element, in order.
RECURSIVE Dedupe(_)
Dedupe(list) ==
    IF list = <<>> THEN <<>>
    ELSE LET init == Dedupe(SubSeq(list, 1, Len(list) - 1))
             last == list[Len(list)]
         IN  IF last \in SetOf(init) THEN init ELSE Append(init, last)

\* A member without a type is reported too.
MergedIssuesOfUntyped(schemas) ==
    LET others == SelectSeq(schemas, LAMBDA member : heap[member].type # "object")
    IN  [i \in 1..Len(others) |-> NonObjectIssue(heap[others[i]].type)]

RECURSIVE MergedIssues(_)
MergedIssues(schemas) ==
    IF schemas = <<>> THEN <<>>
    ELSE LET s == heap[Head(schemas)]
         IN  (IF s.type # "" /\ s.type # "object"
              THEN <<NonObjectIssue(s.type)>> ELSE <<>>)
             \o MergedIssues(Tail(schemas))

\* { ...schema.properties, ...merged.properties }
RECURSIVE MergedPropertiesFirstWins(_)
MergedPropertiesFirstWins(schemas) ==
    IF schemas = <<>> THEN <<>>
    ELSE LET s == heap[schemas[Len(schemas)]]
             before == MergedPropertiesFirstWins(SubSeq(schemas, 1, Len(schemas) - 1))
         IN  IF Has(s, "properties") THEN Spread(s.properties, before) ELSE before

RECURSIVE MergedProperties(_)
MergedProperties(schemas) ==
    IF schemas = <<>> THEN <<>>
    ELSE LET s == heap[schemas[Len(schemas)]]
             before == MergedProperties(SubSeq(schemas, 1, Len(schemas) - 1))
         IN  IF Has(s, "properties") THEN Spread(before, s.properties) ELSE before

RECURSIVE MergedRequired(_)
MergedRequired(schemas) ==
    IF schemas = <<>> THEN <<>>
    ELSE LET s == heap[Head(schemas)]
         IN  (IF Has(s, "required") THEN s.required ELSE <<>>)
             \o MergedRequired(Tail(schemas))

RECURSIVE MergedDescription(_)
MergedDescription(schemas) ==
    IF schemas = <<>> THEN ""
    ELSE IF heap[Head(schemas)].description # "" THEN heap[Head(schemas)].description
    ELSE MergedDescription(Tail(schemas))

mergeAllOfSchemas(schemas) ==
    [merged |-> Schema("object", {"properties", "required"},
                       MergedProperties(schemas), 0,
                       Dedupe(MergedRequired(schemas)),
                       <<>>, <<>>, <<>>, "", MergedDescription(schemas)),
     issues |-> MergedIssues(schemas)]


(***************************************************************************)
(* The documents the traversal is run on: every schema graph of at most    *)
(* MaxNodes nodes built from the shapes below, every node reachable from   *)
(* the root, plus the two schemas the specification names.  A child is any *)
(* node of the graph, so the graphs include trees, diamonds and cycles     *)
(* through properties, items, allOf, oneOf and anyOf.                      *)
(***************************************************************************)
Title(n) == <<"A", "B", "C", "D", "E">>[n]
Description(n) == <<"about A", "about B", "about C", "about D", "about E">>[n]

Primitive(type) ==
    Schema(type, {}, <<>>, 0, <<>>, <<>>, <<>>, <<>>, "", "")
Object(properties, required) ==
    Schema("object", {"properties", "required"}, properties, 0, required,
           <<>>, <<>>, <<>>, "", "")
Array(items) ==
    Schema("array", {"items"}, <<>>, items, <<>>, <<>>, <<>>, <<>>, "", "")
AllOf(members) ==
    Schema("", {"allOf"}, <<>>, 0, <<>>, members, <<>>, <<>>, "", "")
OneOf(members) ==
    Schema("", {"oneOf"}, <<>>, 0, <<>>, <<>>, members, <<>>, "", "")
AnyOf(members) ==
    Schema("", {"anyOf"}, <<>>, 0, <<>>, <<>>, <<>>, members, "", "")
Named(n, s) == [s EXCEPT !.title = Title(n), !.description = Description(n)]

\* Two children: the nodes are interchangeable, so the pairs in one order do.
Pairs(nodes) == {p \in nodes \X nodes : p[1] <= p[2]}

Shapes(nodes) ==
    {Primitive(t) : t \in {"string", "integer"}}
    \cup {Object(<<Prop("x", c)>>, r) : c \in nodes, r \in {<<>>, <<"x">>}}
    \cup {Object(<<Prop("x", p[1]), Prop("y", p[2])>>, <<"y", "y">>) : p \in Pairs(nodes)}
    \cup {Array(c) : c \in nodes}
    \cup {AllOf(<<p[1], p[2]>>) : p \in Pairs(nodes)}
    \cup {OneOf(<<p[1], p[2]>>) : p \in Pairs(nodes)}
    \cup {AnyOf(<<c>>) : c \in nodes}

\* The nodes a node refers to.
Children(s) ==
    ({s.properties[i].schema : i \in 1..Len(s.properties)}
     \cup (IF Has(s, "items") THEN {s.items} ELSE {})
     \cup SetOf(s.allOf) \cup SetOf(s.oneOf) \cup SetOf(s.anyOf))
    \ {0}

RECURSIVE ReachableFrom(_, _)
ReachableFrom(h, seen) ==
    LET more == seen \cup UNION {Children(h[n]) : n \in seen}
    IN  IF more = seen THEN seen ELSE ReachableFrom(h, more)

Graphs ==
    UNION {{h \in [1..n -> Shapes(1..n)] : ReachableFrom(h, {1}) = 1..n} : n \in 1..MaxNodes}

\* Every object schema but the root carries a title and a description.
Documents ==
    {[n \in DOMAIN h |-> IF n # 1 /\ h[n].type = "object" THEN Named(n, h[n]) ELSE h[n]] :
        h \in Graphs}

\* Node{ name: string, children: Node[] }
NodeDocument ==
    <<Named(1, Object(<<Prop("name", 2), Prop("children", 3)>>, <<"name">>)),
      Primitive("string"),
      Array(1)>>

\* oneOf [ A{x}, B{y} ]
VariantDocument(requiredA, requiredB) ==
    <<OneOf(<<2, 3>>),
      Named(1, Object(<<Prop("x", 4)>>, requiredA)),
      Named(2, Object(<<Prop("y", 4)>>, requiredB)),
      Primitive("string")>>

\* The schemas the specification names.
Examples ==
    {NodeDocument}
    \cup {VariantDocument(a, b) : a \in {<<>>, <<"x">>}, b \in {<<>>, <<"y">>}}

\* A document and the fieldPath of the root call: '', as
\* generateDataDictionary passes it, and for the examples also the path root.
Inputs ==
    (Documents \X {<<>>}) \cup (Examples \X {<<>>, <<"root">>})

(***************************************************************************)
(* The context of a traversal, the records it emits and the frame of a     *)
(* call.                                                                   *)
(***************************************************************************)
\* The FlattenContext generateDataDictionary builds for a response body.
RootContext(schema) ==
    [operationId |-> "getThing", method |-> "GET", path |-> "/things",
     tags |-> "things", summary |-> "One thing",
     location |-> "response_body", httpStatus |-> "200",
     mediaType |-> "application/json",
     sourceRef |-> "responses.200.content.application/json.schema",
     requiredFields |-> SetOf(heap[schema].required)]

\* The new context loses the sourceRef.
NewContextWithoutSource(ctx, schema) ==
    [ctx EXCEPT !.requiredFields = SetOf(heap[schema].required), !.sourceRef = ""]

\* { ...ctx, requiredFields: new Set(schema.required || []) }
NewContext(ctx, schema) ==
    [ctx EXCEPT !.requiredFields = SetOf(heap[schema].required)]

\* Where a record comes from; no part of the output.  `branch` is the place
\* of flattenSchema that emitted it, `schema` the node of that call, `path`
\* the segments of its fieldPath, `label` the variant label of that call,
\* `merges` the issues of the allOf merges the call is in the subtree of, and
\* `decl` the property declaration the record stands for: the object schema
\* and the property name.
NoDecl == [owner |-> 0, name |-> ""]
Decl(owner, name) == [owner |-> owner, name |-> name]
Origin(branch, frame, fieldPath, decl) ==
    [branch |-> branch, schema |-> frame.schema, path |-> fieldPath,
     label |-> frame.variantLabel, merges |-> frame.merges, decl |-> decl]

FieldInstance(ctx, schemaName, fieldPath, fieldName, type, itemType, required, description, issues, origin) ==
    [operationId |-> ctx.operationId, method |-> ctx.method, path |-> ctx.path,
     tags |-> ctx.tags, summary |-> ctx.summary, location |-> ctx.location,
     httpStatus |-> ctx.httpStatus, mediaType |-> ctx.mediaType,
     schemaName |-> schemaName, fieldPath |-> PathString(fieldPath),
     fieldName |-> fieldName, type |-> type, itemType |-> itemType,
     required |-> required, description |-> description,
     sourceRef |-> ctx.sourceRef, issues |-> issues, origin |-> origin]

\* One call of flattenSchema.  `visited` is the identity of the Set object
\* the call was given; `decl` and `merges` are kept for the records' origin
\* and read by no step.
Frame(schema, fieldPath, ctx, parentSchemaName, variantLabel, visited, decl, merges) ==
    [schema |-> schema, fieldPath |-> fieldPath, ctx |-> ctx,
     parentSchemaName |-> parentSchemaName, variantLabel |-> variantLabel,
     visited |-> visited, results |-> <<>>, issues |-> <<>>,
     pc |-> "enter", index |-> 1, decl |-> decl, merges |-> merges]

Top == stack[Len(stack)]
WithTop(frame) == [stack EXCEPT ![Len(stack)] = frame]

\* variantLabel ? `variant: ${variantLabel}` : ''
VariantIssue(variantLabel) ==
    IF variantLabel # "" THEN "variant: " \o variantLabel ELSE ""

\* Every schema is descended into.
IsComplexAlways(s) == TRUE

\* type === 'object' || properties || allOf || oneOf || anyOf
IsComplex(s) ==
    s.type = "object" \/ Has(s, "properties") \/ Has(s, "allOf")
    \/ Has(s, "oneOf") \/ Has(s, "anyOf")

\* flattenSchema is run on a schema by itself: there is no document, and no
\* helper is called from outside.
NoApi == [paths |-> <<>>]
NoRun == [fieldInstances |-> <<>>, endpoints |-> <<>>, finished |-> FALSE]
NoDriver ==
    /\ api = NoApi
    /\ todo = <<>>
    /\ fieldInstances = <<>>
    /\ endpoints = <<>>
    /\ previous = NoRun
    /\ calls = <<>>

(***************************************************************************)
(* The root call, as generateDataDictionary makes it.                      *)
(***************************************************************************)
Init ==
    /\ \E input \in Inputs :
          /\ heap = input[1]
          /\ rootPath = input[2]
    /\ root = 1
    /\ schemaNameCache = <<>>
    /\ sets = <<>>
    /\ stack = <<>>
    /\ out = <<>>
    /\ phase = "init"
    /\ pruned = {}
    /\ steps = 0
    /\ NoDriver

Start ==
    /\ phase = "init"
    /\ schemaNameCache' = CacheAfter(schemaNameCache, root, <<>>)
    /\ sets' = <<{}>>
    /\ stack' = <<Frame(root, rootPath, RootContext(root),
                        getSchemaName(schemaNameCache, root, <<>>), "", 1, NoDecl, {})>>
    /\ phase' = "run"
    /\ UNCHANGED <<heap, root, rootPath, out, pruned>>
    /\ steps' = steps + 1
    /\ UNCHANGED driverVars

Running(pc) == phase = "run" /\ stack # <<>> /\ Top.pc = pc

(***************************************************************************)
(* flattenSchema, lines 259-266: the cycle guard, then the first branch    *)
(* whose condition holds.                                                  *)
(***************************************************************************)
visitedHasNever(visited, schema) == FALSE

\* The guard looks at the set from the fourth call of a branch on.
visitedHasDeep(visited, schema) == schema \in sets[visited] /\ Len(stack) > 3

visitedHas(visited, schema) == schema \in sets[visited]

\* oneOf and anyOf are looked at before allOf.
BranchVariantsFirst(s) ==
    IF Has(s, "oneOf") /\ Len(s.oneOf) > 0 THEN "oneOf"
    ELSE IF Has(s, "anyOf") /\ Len(s.anyOf) > 0 THEN "anyOf"
    ELSE IF Has(s, "allOf") /\ Len(s.allOf) > 0 THEN "allOf"
    ELSE IF s.type = "array" /\ Has(s, "items") THEN "array"
    ELSE IF s.type = "object" \/ Has(s, "properties") THEN "object"
    ELSE "primitive"

Branch(s) ==
    IF Has(s, "allOf") /\ Len(s.allOf) > 0 THEN "allOf"
    ELSE IF Has(s, "oneOf") /\ Len(s.oneOf) > 0 THEN "oneOf"
    ELSE IF Has(s, "anyOf") /\ Len(s.anyOf) > 0 THEN "anyOf"
    ELSE IF s.type = "array" /\ Has(s, "items") THEN "array"
    ELSE IF s.type = "object" \/ Has(s, "properties") THEN "object"
    ELSE "primitive"

Enter ==
    /\ Running("enter")
    /\ IF visitedHas(Top.visited, Top.schema)
       THEN /\ stack' = WithTop([Top EXCEPT !.pc = "return"])
            /\ pruned' = pruned \cup {[schema |-> Top.schema, path |-> Top.fieldPath]}
            /\ UNCHANGED sets
       ELSE /\ sets' = [sets EXCEPT ![Top.visited] = @ \cup {Top.schema}]
            /\ stack' = WithTop([Top EXCEPT !.pc = Branch(heap[Top.schema])])
            /\ UNCHANGED pruned
    /\ UNCHANGED <<heap, root, rootPath, schemaNameCache, out, phase>>
    /\ steps' = steps + 1
    /\ UNCHANGED driverVars

(***************************************************************************)
(* A call returns: the caller takes the records (return flattenSchema(...) *)
(* hands them on as they are, results.push(...flattenSchema(...)) appends  *)
(* them), and the root call's records are the output.                      *)
(***************************************************************************)
\* The caller puts the records of the callee before its own.
ReturnPrepending ==
    /\ Running("return")
    /\ IF Len(stack) = 1
       THEN /\ out' = Top.results
            /\ stack' = <<>>
            /\ phase' = "done"
       ELSE LET caller == stack[Len(stack) - 1]
                resumed ==
                    IF caller.pc = "tail"
                    THEN [caller EXCEPT !.results = Top.results, !.pc = "return"]
                    ELSE [caller EXCEPT !.results = Top.results \o @]
            IN  /\ stack' = Append(SubSeq(stack, 1, Len(stack) - 2), resumed)
                /\ UNCHANGED <<out, phase>>
    /\ UNCHANGED <<heap, root, rootPath, schemaNameCache, sets, pruned>>
    /\ steps' = steps + 1
    /\ UNCHANGED driverVars

Return ==
    /\ Running("return")
    /\ IF Len(stack) = 1
       THEN /\ out' = Top.results
            /\ stack' = <<>>
            /\ phase' = "done"
       ELSE LET caller == stack[Len(stack) - 1]
                resumed ==
                    IF caller.pc = "tail"
                    THEN [caller EXCEPT !.results = Top.results, !.pc = "return"]
                    ELSE [caller EXCEPT !.results = @ \o Top.results]
            IN  /\ stack' = Append(SubSeq(stack, 1, Len(stack) - 2), resumed)
                /\ UNCHANGED <<out, phase>>
    /\ UNCHANGED <<heap, root, rootPath, schemaNameCache, sets, pruned>>
    /\ steps' = steps + 1
    /\ UNCHANGED driverVars

\* new Set(visited): what the new Set object holds, and where it will live.
\* The three places that copy the set before a recursion hand the new object
\* to the callee:
newSetEmpty(visited) == {}

newSetOf(visited) == sets[visited]
NewSet == Len(sets) + 1
\* The members are given the Set of the composition itself.
variantVisitedShared(visited) == visited

variantVisited(visited) == NewSet       \* lines 282, 291
propertyVisitedShared(visited) == visited

propertyVisited(visited) == NewSet      \* line 384
itemVisited(visited) == NewSet          \* line 423

\* A recursive call: the caller goes on as `caller`, the callee is entered.
Call(caller, callee) ==
    /\ Len(stack) < MaxDepth
    /\ stack' = Append(WithTop(caller), callee)

(***************************************************************************)
(* Lines 268-275: allOf.  The members are merged into a new node, the      *)
(* merge's issues go to the call's local `issues`, and the call returns    *)
(* what the recursion into the merged node returns, on the same Set.       *)
(***************************************************************************)
\* The node itself is merged with its members.
HandleAllOfWithOwn ==
    /\ Running("allOf")
    /\ LET m == mergeAllOfSchemas(heap[Top.schema].allOf \o <<Top.schema>>)
           schemaName == OrElse(getSchemaName(schemaNameCache, Top.schema, <<>>),
                                Top.parentSchemaName)
       IN  /\ heap' = Append(heap, m.merged)
           /\ schemaNameCache' = CacheAfter(schemaNameCache, Top.schema, <<>>)
           /\ Call([Top EXCEPT !.issues = @ \o m.issues, !.pc = "tail"],
                   Frame(Len(heap) + 1, Top.fieldPath, Top.ctx, schemaName,
                         Top.variantLabel, Top.visited, Top.decl,
                         Top.merges \cup SetOf(m.issues)))
    /\ UNCHANGED <<root, rootPath, sets, out, phase, pruned>>
    /\ steps' = steps + 1
    /\ UNCHANGED driverVars

\* The members are merged into the first of them.
HandleAllOfInPlace ==
    /\ Running("allOf")
    /\ LET m == mergeAllOfSchemas(heap[Top.schema].allOf)
           schemaName == OrElse(getSchemaName(schemaNameCache, Top.schema, <<>>),
                                Top.parentSchemaName)
       IN  /\ heap' = [Append(heap, m.merged) EXCEPT ![heap[Top.schema].allOf[1]] = m.merged]
           /\ schemaNameCache' = CacheAfter(schemaNameCache, Top.schema, <<>>)
           /\ Call([Top EXCEPT !.issues = @ \o m.issues, !.pc = "tail"],
                   Frame(Len(heap) + 1, Top.fieldPath, Top.ctx, schemaName,
                         Top.variantLabel, Top.visited, Top.decl,
                         Top.merges \cup SetOf(m.issues)))
    /\ UNCHANGED <<root, rootPath, sets, out, phase, pruned>>
    /\ steps' = steps + 1
    /\ UNCHANGED driverVars

HandleAllOf ==
    /\ Running("allOf")
    /\ LET m == mergeAllOfSchemas(heap[Top.schema].allOf)
           schemaName == OrElse(getSchemaName(schemaNameCache, Top.schema, <<>>),
                                Top.parentSchemaName)
       IN  /\ heap' = Append(heap, m.merged)
           /\ schemaNameCache' = CacheAfter(schemaNameCache, Top.schema, <<>>)
           /\ Call([Top EXCEPT !.issues = @ \o m.issues, !.pc = "tail"],
                   Frame(Len(heap) + 1, Top.fieldPath, Top.ctx, schemaName,
                         Top.variantLabel, Top.visited, Top.decl,
                         Top.merges \cup SetOf(m.issues)))
    /\ UNCHANGED <<root, rootPath, sets, out, phase, pruned>>
    /\ steps' = steps + 1
    /\ UNCHANGED driverVars

(***************************************************************************)
(* Lines 277-294: oneOf and anyOf.  One step is one turn of the forEach,   *)
(* or the return after the last turn.                                      *)
(***************************************************************************)
\* getSchemaName(variant) || `variant${index + 1}`; `index` counts from 1 here.
variantName(cache, variant, index) ==
    OrElse(getSchemaName(cache, variant, <<>>), "variant" \o ToString(index))

newVariantLabelOfParent(variantLabel, name) == variantLabel

\* variantLabel ? `${variantLabel}|${variantName}` : variantName
newVariantLabel(variantLabel, name) ==
    IF variantLabel # "" THEN variantLabel \o "|" \o name ELSE name

HandleVariants(pc, variants) ==
    /\ Running(pc)
    /\ IF Top.index > Len(variants)
       THEN /\ stack' = WithTop([Top EXCEPT !.pc = "return"])
            /\ UNCHANGED <<schemaNameCache, sets>>
       ELSE LET variant == variants[Top.index]
                name == variantName(schemaNameCache, variant, Top.index)
            IN  /\ schemaNameCache' = CacheAfter(schemaNameCache, variant, <<>>)
                /\ sets' = Append(sets, newSetOf(Top.visited))
                /\ Call([Top EXCEPT !.index = @ + 1],
                        Frame(variant, Top.fieldPath, Top.ctx, Top.parentSchemaName,
                              newVariantLabel(Top.variantLabel, name),
                              variantVisited(Top.visited), Top.decl, Top.merges))
    /\ UNCHANGED <<heap, root, rootPath, out, phase, pruned>>
    /\ steps' = steps + 1
    /\ UNCHANGED driverVars

HandleOneOf == HandleVariants("oneOf", heap[Top.schema].oneOf)

HandleAnyOf == HandleVariants("anyOf", heap[Top.schema].anyOf)

(***************************************************************************)
(* Lines 296-338: an array schema with items.                              *)
(***************************************************************************)
HandleArray ==
    /\ Running("array")
    /\ LET schema == heap[Top.schema]
           itemSchema == heap[schema.items]
           arrayPath == ArrayPath(Top.fieldPath)
           fieldName == LastSegment(Top.fieldPath, "items")
       IN  IF IsComplex(itemSchema)
           THEN /\ schemaNameCache' = CacheAfter(schemaNameCache, schema.items, <<>>)
                /\ Call([Top EXCEPT !.pc = "tail"],
                        Frame(schema.items, arrayPath, Top.ctx,
                              OrElse(getSchemaName(schemaNameCache, schema.items, <<>>),
                                     Top.parentSchemaName),
                              Top.variantLabel, Top.visited, NoDecl, Top.merges))
           ELSE /\ stack' = WithTop([Top EXCEPT
                      !.results = Append(@,
                          FieldInstance(Top.ctx, Top.parentSchemaName, arrayPath,
                              fieldName \o "[]", "array", itemSchema.type,
                              yesNo(fieldName \in Top.ctx.requiredFields),
                              OrElse(schema.description, itemSchema.description),
                              Join(Top.issues, "; "),
                              Origin("primitiveArray", Top, arrayPath, Top.decl))),
                      !.pc = "return"])
                /\ UNCHANGED schemaNameCache
    /\ UNCHANGED <<heap, root, rootPath, sets, out, phase, pruned>>
    /\ steps' = steps + 1
    /\ UNCHANGED driverVars

(***************************************************************************)
(* Lines 340-458: an object schema.  One step is one turn of the loop over *)
(* the declared properties, or the return after the last one.              *)
(***************************************************************************)
\* The property of this turn, its path and its name for the records.
propOf(frame) == heap[frame.schema].properties[frame.index]
propPathOf(frame) == PropPath(frame.fieldPath, propOf(frame).name)
\* The name of the enclosing schema.
propSchemaNameInherited(frame) == frame.parentSchemaName

propSchemaNameOf(frame) ==
    OrElse(getSchemaName(schemaNameCache, propOf(frame).schema, <<>>),
           frame.parentSchemaName)

propRequiredOfContext(frame, propName) ==
    yesNo(propName \in frame.ctx.requiredFields)

\* required: yesNo(requiredFields.has(propName)), with
\* requiredFields = new Set(schema.required || []) of the object itself.
propRequired(frame, propName) ==
    yesNo(propName \in SetOf(heap[frame.schema].required))

\* The row of a property: lines 355-381, 391-417 and 427-453.
propRow(frame, type, itemType, branch) ==
    LET prop == propOf(frame)
        propSchema == heap[prop.schema]
    IN  FieldInstance(frame.ctx, propSchemaNameOf(frame), propPathOf(frame), prop.name,
                      type, itemType, propRequired(frame, prop.name),
                      propSchema.description, VariantIssue(frame.variantLabel),
                      Origin(branch, frame, propPathOf(frame), Decl(frame.schema, prop.name)))

InLoop == Running("object") /\ Top.index <= Len(heap[Top.schema].properties)

\* Lines 350-384: the property is an object or a composition.
HandleComplexProperty ==
    /\ InLoop
    /\ LET prop == propOf(Top)
           propSchema == heap[prop.schema]
       IN  /\ ~IsNull(prop.schema)
           /\ IsComplex(propSchema)
           /\ schemaNameCache' = CacheAfter(schemaNameCache, prop.schema, <<>>)
           /\ sets' = Append(sets, newSetOf(Top.visited))
           /\ Call([Top EXCEPT
                      !.results = Append(@, propRow(Top, OrElse(propSchema.type, "object"),
                                                    "", "object")),
                      !.index = @ + 1],
                   Frame(prop.schema, propPathOf(Top), NewContext(Top.ctx, prop.schema),
                         propSchemaNameOf(Top), Top.variantLabel,
                         propertyVisited(Top.visited), Decl(Top.schema, prop.name),
                         Top.merges))
    /\ UNCHANGED <<heap, root, rootPath, out, phase, pruned>>
    /\ steps' = steps + 1
    /\ UNCHANGED driverVars

\* Lines 385-424: the property is an array with items.
HandleArrayProperty ==
    /\ InLoop
    /\ LET prop == propOf(Top)
           propSchema == heap[prop.schema]
           itemSchema == heap[propSchema.items]
           row == propRow(Top, "array",
                          OrElse(itemSchema.type,
                                 IF Has(itemSchema, "properties") THEN "object" ELSE ""),
                          "array")
           cache == CacheAfter(schemaNameCache, prop.schema, <<>>)
           caller == [Top EXCEPT !.results = Append(@, row), !.index = @ + 1]
       IN  /\ ~IsNull(prop.schema)
           /\ ~IsComplex(propSchema)
           /\ propSchema.type = "array" /\ Has(propSchema, "items")
           /\ IF IsComplex(itemSchema)
              THEN /\ schemaNameCache' = CacheAfter(cache, propSchema.items, <<>>)
                   /\ sets' = Append(sets, newSetOf(Top.visited))
                   /\ Call(caller,
                           Frame(propSchema.items, ArrayPath(propPathOf(Top)),
                                 NewContext(Top.ctx, propSchema.items),
                                 OrElse(getSchemaName(cache, propSchema.items, <<>>),
                                        propSchemaNameOf(Top)),
                                 Top.variantLabel, itemVisited(Top.visited), NoDecl,
                                 Top.merges))
              ELSE /\ schemaNameCache' = cache
                   /\ stack' = WithTop(caller)
                   /\ UNCHANGED sets
    /\ UNCHANGED <<heap, root, rootPath, out, phase, pruned>>
    /\ steps' = steps + 1
    /\ UNCHANGED driverVars

\* Lines 425-454: any other property.
HandlePrimitiveProperty ==
    /\ InLoop
    /\ LET prop == propOf(Top)
           propSchema == heap[prop.schema]
       IN  /\ ~IsNull(prop.schema)
           /\ ~IsComplex(propSchema)
           /\ ~(propSchema.type = "array" /\ Has(propSchema, "items"))
           /\ schemaNameCache' = CacheAfter(schemaNameCache, prop.schema, <<>>)
           /\ stack' = WithTop([Top EXCEPT
                  !.results = Append(@, propRow(Top, propSchema.type, "", "primitive")),
                  !.index = @ + 1])
    /\ UNCHANGED <<heap, root, rootPath, sets, out, phase, pruned>>
    /\ steps' = steps + 1
    /\ UNCHANGED driverVars

\* Line 347: the value of the property is null.  getSchemaName finds no
\* cached name for it, has no refPath, and reads schema.title: a TypeError,
\* which nothing catches.
ThrowOnProperty ==
    /\ InLoop
    /\ IsNull(propOf(Top).schema)
    /\ phase' = "raised"
    /\ UNCHANGED <<heap, root, rootPath, schemaNameCache, sets, stack, out, pruned>>
    /\ steps' = steps + 1
    /\ UNCHANGED driverVars

\* Line 457: the loop is over.
ReturnObject ==
    /\ Running("object")
    /\ Top.index > Len(heap[Top.schema].properties)
    /\ stack' = WithTop([Top EXCEPT !.pc = "return"])
    /\ UNCHANGED <<heap, root, rootPath, schemaNameCache, sets, out, phase, pruned>>
    /\ steps' = steps + 1
    /\ UNCHANGED driverVars

(***************************************************************************)
(* Lines 460-492: a schema with a type and neither properties nor items    *)
(* gives one row; anything else that gets here gives none.                 *)
(***************************************************************************)
HandlePrimitive ==
    /\ Running("primitive")
    /\ LET schema == heap[Top.schema]
           fieldName == LastSegment(Top.fieldPath, "value")
       IN  stack' = WithTop([Top EXCEPT
               !.results =
                   IF schema.type # "" /\ ~Has(schema, "properties") /\ ~Has(schema, "items")
                   THEN Append(@,
                          FieldInstance(Top.ctx, Top.parentSchemaName, Top.fieldPath,
                              fieldName, schema.type, "",
                              yesNo(fieldName \in Top.ctx.requiredFields),
                              schema.description, Join(Top.issues, "; "),
                              Origin("rootPrimitive", Top, Top.fieldPath, Top.decl)))
                   ELSE @,
               !.pc = "return"])
    /\ UNCHANGED <<heap, root, rootPath, schemaNameCache, sets, out, phase, pruned>>
    /\ steps' = steps + 1
    /\ UNCHANGED driverVars

Next ==
    \/ Start
    \/ Enter
    \/ HandleAllOf
    \/ HandleOneOf
    \/ HandleAnyOf
    \/ HandleArray
    \/ HandleComplexProperty
    \/ HandleArrayProperty
    \/ HandlePrimitiveProperty
    \/ ReturnObject
    \/ HandlePrimitive
    \/ Return

Spec == Init /\ [][Next]_vars

(***************************************************************************)
(* flattenSchema on documents that may hold malformed or partially         *)
(* specified schemas: a schema with no key at all, an array with no items, *)
(* a property whose value is null.                                         *)
(***************************************************************************)
Malformed(nodes) ==
    {Primitive(""),
     Schema("array", {}, <<>>, 0, <<>>, <<>>, <<>>, <<>>, "", ""),
     Object(<<Prop("x", 0)>>, <<>>)}
    \cup {Object(<<Prop("x", 0), Prop("y", c)>>, <<"x">>) : c \in nodes}

MalformedGraphs ==
    UNION {{h \in [1..n -> Shapes(1..n) \cup Malformed(1..n)] :
                ReachableFrom(h, {1}) = 1..n} :
           n \in 1..(MaxNodes - 1)}

MalformedDocuments ==
    {[n \in DOMAIN h |-> IF n # 1 /\ h[n].type = "object" THEN Named(n, h[n]) ELSE h[n]] :
        h \in MalformedGraphs}

MalformedInit ==
    /\ heap \in MalformedDocuments
    /\ rootPath = <<>>
    /\ root = 1
    /\ schemaNameCache = <<>>
    /\ sets = <<>>
    /\ stack = <<>>
    /\ out = <<>>
    /\ phase = "init"
    /\ pruned = {}
    /\ steps = 0
    /\ NoDriver

MalformedNext == Next \/ ThrowOnProperty

MalformedSpec == MalformedInit /\ [][MalformedNext]_vars

(***************************************************************************)
(* flattenSchema on documents whose schemas carry several of the keys      *)
(* allOf, oneOf, anyOf, items and properties at once: a composition beside *)
(* properties and a required list of the node itself, an allOf that is     *)
(* present and empty, an array with properties.                            *)
(***************************************************************************)
Mixed(nodes) ==
    {Schema("object", {"allOf", "oneOf", "anyOf", "properties", "required"},
            <<Prop("own", c)>>, 0, <<"own", "x">>, <<a>>, <<c>>, <<c>>, "", "") :
        a \in nodes, c \in nodes}
    \cup {Schema("array", {"oneOf", "anyOf", "properties", "items"},
                 <<Prop("own", c)>>, c, <<>>, <<>>, <<a>>, <<c>>, "", "") :
            a \in nodes, c \in nodes}
    \cup {Schema("array", {"allOf", "anyOf", "items"},
                 <<>>, c, <<>>, <<>>, <<>>, <<c>>, "", "") : c \in nodes}
    \cup {Schema("array", {"properties", "items"},
                 <<Prop("own", c)>>, c, <<>>, <<>>, <<>>, <<>>, "", "") : c \in nodes}

MixedGraphs ==
    UNION {{h \in [1..n -> Shapes(1..n) \cup Mixed(1..n)] :
                ReachableFrom(h, {1}) = 1..n} :
           n \in 1..(MaxNodes - 1)}

MixedDocuments ==
    {[n \in DOMAIN h |-> IF n # 1 /\ h[n].type = "object" THEN Named(n, h[n]) ELSE h[n]] :
        h \in MixedGraphs}

MixedInit ==
    /\ heap \in MixedDocuments
    /\ rootPath = <<>>
    /\ root = 1
    /\ schemaNameCache = <<>>
    /\ sets = <<>>
    /\ stack = <<>>
    /\ out = <<>>
    /\ phase = "init"
    /\ pruned = {}
    /\ steps = 0
    /\ NoDriver

MixedSpec == MixedInit /\ [][Next]_vars

(***************************************************************************)
(* String comparison.  A string that is compared is taken by its           *)
(* characters: Spelling gives those of the strings that occur as a whole   *)
(* (urls, methods, status codes, the segments of a field path), and        *)
(* Alphabet lists the characters in the order of the collation of          *)
(* localeCompare: punctuation, digits, letters.  No compared field mixes   *)
(* the two cases of one letter.                                            *)
(***************************************************************************)
Alphabet ==
    <<".", "[", "]", "/", "0", "2", "4",
      "a", "b", "d", "D", "E", "G", "i", "L", "O", "P", "S", "T", "U", "x", "y", "z">>

Spelling ==
    [string \in {"", "/a", "/b", "GET", "POST", "PUT", "DELETE", "200", "404",
                 "x", "y", "z", "id", "x[]", "y[]", "[]"} |->
        CASE string = "" -> <<>>
          [] string = "/a" -> <<"/", "a">>
          [] string = "/b" -> <<"/", "b">>
          [] string = "GET" -> <<"G", "E", "T">>
          [] string = "POST" -> <<"P", "O", "S", "T">>
          [] string = "PUT" -> <<"P", "U", "T">>
          [] string = "DELETE" -> <<"D", "E", "L", "E", "T", "E">>
          [] string = "200" -> <<"2", "0", "0">>
          [] string = "404" -> <<"4", "0", "4">>
          [] string = "id" -> <<"i", "d">>
          [] string = "x[]" -> <<"x", "[", "]">>
          [] string = "y[]" -> <<"y", "[", "]">>
          [] string = "[]" -> <<"[", "]">>
          [] OTHER -> <<string>>]

\* The characters of a field path: those of its segments, with dots between.
RECURSIVE SpellPath(_)
SpellPath(fieldPath) ==
    IF fieldPath = <<>> THEN <<>>
    ELSE IF Len(fieldPath) = 1 THEN Spelling[fieldPath[1]]
    ELSE Spelling[fieldPath[1]] \o <<".">> \o SpellPath(Tail(fieldPath))

Rank(char) == CHOOSE i \in 1..Len(Alphabet) : Alphabet[i] = char

\* a.localeCompare(b), on the characters of a and b.
RECURSIVE localeCompare(_, _)
localeCompare(a, b) ==
    IF a = <<>> /\ b = <<>> THEN 0
    ELSE IF a = <<>> THEN -1
    ELSE IF b = <<>> THEN 1
    ELSE IF Rank(Head(a)) < Rank(Head(b)) THEN -1
    ELSE IF Rank(Head(a)) > Rank(Head(b)) THEN 1
    ELSE localeCompare(Tail(a), Tail(b))

\* list.indexOf(value), counting from 0; -1 when it is not there.
indexOf(list, value) ==
    IF \E i \in 1..Len(list) : list[i] = value
    THEN (CHOOSE i \in 1..Len(list) :
              list[i] = value /\ \A j \in 1..(i - 1) : list[j] # value) - 1
    ELSE -1

locationOrder ==
    <<"path_param", "query_param", "header_param", "cookie_param",
      "request_body", "response_body">>

\* The comparator without the location.
compareFieldInstancesAnywhere(a, b) ==
    LET pathCmp == localeCompare(Spelling[a.path], Spelling[b.path])
        methodCmp == localeCompare(Spelling[a.method], Spelling[b.method])
        statusCmp == localeCompare(Spelling[a.httpStatus], Spelling[b.httpStatus])
    IN  IF pathCmp # 0 THEN pathCmp
        ELSE IF methodCmp # 0 THEN methodCmp
        ELSE IF statusCmp # 0 THEN statusCmp
        ELSE localeCompare(SpellPath(a.origin.path), SpellPath(b.origin.path))

\* Lines 684-699: the comparator of the field instances.
compareFieldInstances(a, b) ==
    LET pathCmp == localeCompare(Spelling[a.path], Spelling[b.path])
        methodCmp == localeCompare(Spelling[a.method], Spelling[b.method])
        locCmp == indexOf(locationOrder, a.location) - indexOf(locationOrder, b.location)
        statusCmp == localeCompare(Spelling[a.httpStatus], Spelling[b.httpStatus])
    IN  IF pathCmp # 0 THEN pathCmp
        ELSE IF methodCmp # 0 THEN methodCmp
        ELSE IF locCmp # 0 THEN locCmp
        ELSE IF statusCmp # 0 THEN statusCmp
        ELSE localeCompare(SpellPath(a.origin.path), SpellPath(b.origin.path))

\* Lines 702-706: the comparator of the endpoint rows.
compareEndpoints(a, b) ==
    LET pathCmp == localeCompare(Spelling[a.path], Spelling[b.path])
    IN  IF pathCmp # 0 THEN pathCmp
        ELSE localeCompare(Spelling[a.method], Spelling[b.method])

\* What the comparators return on the pairs of elements of a list.
fieldInstanceComparisons(list) ==
    [i \in 1..Len(list) |->
        [j \in 1..Len(list) |-> compareFieldInstances(list[i], list[j])]]

endpointComparisons(list) ==
    [i \in 1..Len(list) |-> [j \in 1..Len(list) |-> compareEndpoints(list[i], list[j])]]

\* list.sort(compare), with compare[i][j] what the comparator returns on the
\* i-th and the j-th element: the sort is stable, so an element ends up
\* behind the elements that compare as smaller and behind those that compare
\* as equal and were before it.
sort(list, compare) ==
    LET before(i) == {j \in 1..Len(list) :
                         \/ compare[j][i] < 0
                         \/ compare[j][i] = 0 /\ j < i}
    IN  [k \in 1..Len(list) |->
            list[CHOOSE i \in 1..Len(list) : Cardinality(before(i)) = k - 1]]

(***************************************************************************)
(* The OpenAPI document: paths, path items with the operations declared    *)
(* under their keys, parameters, request bodies and responses.  A schema   *)
(* is a node of the heap, 0 when there is none.                            *)
(***************************************************************************)
Parameter(name, in, required, schema) ==
    [name |-> name, in |-> in, description |-> "", required |-> required,
     schema |-> schema]

MediaTypeObject(mediaType, schema) == [mediaType |-> mediaType, schema |-> schema]

Response(code, content) == [code |-> code, content |-> content]

\* requestBody is the content of the request body, <<>> when there is none.
Operation(operationId, tags, parameters, requestBody, responses) ==
    [operationId |-> operationId, tags |-> tags, summary |-> "", description |-> "",
     parameters |-> parameters, requestBody |-> requestBody, responses |-> responses]

\* operations: the operations of the path item, by the key each is under.
PathItem(url, parameters, operations) ==
    [url |-> url, parameters |-> parameters, operations |-> operations]

\* Line 566: the keys of a path item that are looked at.
methods == <<"get", "post", "put", "patch", "delete">>

\* method.toUpperCase()
toUpperCase(method) ==
    CASE method = "get" -> "GET"
      [] method = "post" -> "POST"
      [] method = "put" -> "PUT"
      [] method = "patch" -> "PATCH"
      [] method = "delete" -> "DELETE"
      [] method = "head" -> "HEAD"

\* What locationMap, an object literal, inherits from Object.prototype: the
\* lookup of such a key gives a function, written here as its text.
Inherited(key) == "function " \o key \o "() { [native code] }"

\* locationMap[param.in] || param.in
locationMap(in) ==
    CASE in = "query" -> "query_param"
      [] in = "header" -> "header_param"
      [] in = "path" -> "path_param"
      [] in = "cookie" -> "cookie_param"
      [] in = "constructor" -> Inherited("Object")
      [] in = "toString" -> Inherited("toString")
      [] OTHER -> in

\* `${method}_${path.replace(/[^a-zA-Z0-9]/g, '_')}`.replace(/_+/g, '_')
sanitizeOperationId(method, path) ==
    LET chars == Spelling[path]
        replaced == [i \in 1..Len(chars) |->
                        IF chars[i] \in {".", "[", "]", "/"} THEN "_" ELSE chars[i]]
        all == <<method, "_">> \o replaced
        kept == {i \in 1..Len(all) : ~(all[i] = "_" /\ i > 1 /\ all[i - 1] = "_")}
    IN  Join([k \in 1..Cardinality(kept) |->
                 all[CHOOSE i \in kept : Cardinality({j \in kept : j < i}) = k - 1]], "")

\* Lines 612-618: baseCtx.
BaseContext(url, method, operation) ==
    [operationId |-> OrElse(operation.operationId, sanitizeOperationId(method, url)),
     method |-> toUpperCase(method), path |-> url,
     tags |-> Join(operation.tags, ", "), summary |-> operation.summary]

\* Lines 630-637 and 651-658: the context of a request or response body.
BodyContext(base, location, httpStatus, mediaType, sourceRef, schema) ==
    [operationId |-> base.operationId, method |-> base.method, path |-> base.path,
     tags |-> base.tags, summary |-> base.summary,
     location |-> location, httpStatus |-> httpStatus, mediaType |-> mediaType,
     sourceRef |-> sourceRef, requiredFields |-> SetOf(heap[schema].required)]

\* Every parameter gives a record for each property of its schema too.
processParameterDescending(cache, param, ctx) ==
    LET own == [operationId |-> ctx.operationId, method |-> ctx.method,
                path |-> ctx.path, tags |-> ctx.tags, summary |-> ctx.summary,
                location |-> locationMap(param.in), httpStatus |-> "",
                mediaType |-> "", sourceRef |-> "parameters." \o param.name]
        properties == IF IsNull(param.schema) THEN <<>> ELSE heap[param.schema].properties
        row(path, name, type) ==
            FieldInstance(own, Anonymous, path, name, type, "", yesNo(param.required),
                          param.description, "",
                          [branch |-> "parameter", schema |-> param.schema, path |-> path,
                           label |-> "", merges |-> {}, decl |-> NoDecl])
    IN  <<row(<<param.name>>, param.name, "")>>
        \o [i \in 1..Len(properties) |->
               row(<<param.name, properties[i].name>>, properties[i].name, "")]

\* processParameter: the one record of a parameter.  `param.schema || {}` is
\* a new object when the parameter has no schema, and has no title.
processParameter(cache, param, ctx) ==
    LET own == [operationId |-> ctx.operationId, method |-> ctx.method,
                path |-> ctx.path, tags |-> ctx.tags, summary |-> ctx.summary,
                location |-> locationMap(param.in), httpStatus |-> "",
                mediaType |-> "", sourceRef |-> "parameters." \o param.name]
        none == IsNull(param.schema)
        schemaName == IF none THEN Anonymous
                      ELSE getSchemaName(cache, param.schema, <<>>)
        type == IF none THEN "" ELSE heap[param.schema].type
        itemType == IF none \/ ~Has(heap[param.schema], "items") THEN ""
                    ELSE heap[heap[param.schema].items].type
        description == IF none THEN param.description
                       ELSE OrElse(param.description, heap[param.schema].description)
    IN  <<FieldInstance(own, schemaName, <<param.name>>, param.name, type, itemType,
                        yesNo(param.required), description, "",
                        [branch |-> "parameter", schema |-> param.schema,
                         path |-> <<param.name>>, label |-> "", merges |-> {},
                         decl |-> NoDecl])>>

\* Lines 621-623: the records of the parameters, and the cache after them.
RECURSIVE processParameters(_, _, _)
processParameters(cache, params, ctx) ==
    IF params = <<>> THEN [records |-> <<>>, cache |-> cache]
    ELSE LET param == Head(params)
             after == IF IsNull(param.schema) THEN cache
                      ELSE CacheAfter(cache, param.schema, <<>>)
             rest == processParameters(after, Tail(params), ctx)
         IN  [records |-> processParameter(cache, param, ctx) \o rest.records,
              cache |-> rest.cache]

\* Lines 577-610: the summary row of an operation.
EndpointSummary(url, method, item) ==
    LET operation == item.operations[method]
        base == BaseContext(url, method, operation)
        mediaTypes(content) == [i \in 1..Len(content) |-> content[i].mediaType]
        codes == [i \in 1..Len(operation.responses) |->
                     LET response == operation.responses[i]
                     IN  IF Len(response.content) > 0
                         THEN response.code \o ": "
                              \o Join(mediaTypes(response.content), ", ")
                         ELSE response.code]
    IN  [method |-> base.method, path |-> url, operationId |-> base.operationId,
         tags |-> base.tags, summary |-> base.summary,
         description |-> operation.description,
         requestMediaTypes |-> Join(mediaTypes(operation.requestBody), ", "),
         responseCodesAndMediaTypes |-> Join(codes, "; "),
         parameterCount |-> Len(item.parameters) + Len(operation.parameters)]

(***************************************************************************)
(* generateDataDictionary, lines 562-699.  Its loops go through the        *)
(* document in a fixed order; `todo` holds what they have still to go      *)
(* through: an operation (its summary row and its parameters), then each   *)
(* of its request and response bodies that has a schema.                   *)
(***************************************************************************)
RECURSIVE Concat(_)
Concat(lists) ==
    IF lists = <<>> THEN <<>> ELSE Head(lists) \o Concat(Tail(lists))

OperationWork(p, method) == [kind |-> "operation", path |-> p, method |-> method]

BodyWork(p, method, location, httpStatus, mediaType, sourceRef, schema) ==
    [kind |-> "body", path |-> p, method |-> method, location |-> location,
     httpStatus |-> httpStatus, mediaType |-> mediaType, sourceRef |-> sourceRef,
     schema |-> schema]

\* if (mediaTypeObj.schema)
WithSchema(bodies) == SelectSeq(bodies, LAMBDA body : ~IsNull(body.schema))

\* Lines 626-642.
RequestBodies(p, method, operation) ==
    WithSchema([i \in 1..Len(operation.requestBody) |->
        LET mediaType == operation.requestBody[i].mediaType
        IN  BodyWork(p, method, "request_body", "", mediaType,
                     "requestBody.content." \o mediaType \o ".schema",
                     operation.requestBody[i].schema)])

\* Lines 644-665.
ResponseBodies(p, method, operation) ==
    Concat([r \in 1..Len(operation.responses) |->
        LET response == operation.responses[r]
        IN  WithSchema([i \in 1..Len(response.content) |->
                LET mediaType == response.content[i].mediaType
                IN  BodyWork(p, method, "response_body", response.code, mediaType,
                             "responses." \o response.code \o ".content." \o mediaType
                               \o ".schema",
                             response.content[i].schema)])])

\* Lines 563-570: the paths in their order, of each the methods in theirs,
\* those without an operation skipped.
Work(document) ==
    Concat([p \in 1..Len(document.paths) |->
        Concat([m \in 1..Len(methods) |->
            LET item == document.paths[p]
            IN  IF methods[m] \in DOMAIN item.operations
                THEN <<OperationWork(p, methods[m])>>
                     \o RequestBodies(p, methods[m], item.operations[methods[m]])
                     \o ResponseBodies(p, methods[m], item.operations[methods[m]])
                ELSE <<>>])])

\* The schemas of the documents: the graphs of fewer than MaxNodes nodes.
SmallDocuments ==
    {[n \in DOMAIN h |-> IF n # 1 /\ h[n].type = "object" THEN Named(n, h[n]) ELSE h[n]] :
        h \in UNION {{g \in [1..n -> Shapes(1..n)] : ReachableFrom(g, {1}) = 1..n} :
                        n \in 1..(MaxNodes - 1)}}

Json(schema) == MediaTypeObject("application/json", schema)

\* One operation with two parameters (one with the schema `param`, one with
\* none), a response without content and one with.
OneOperation(param) ==
    <<PathItem("/a", <<>>,
        "get" :> Operation("getThing", <<"things", "all">>,
                           <<Parameter("z", "query", FALSE, param),
                             Parameter("id", "path", TRUE, 0)>>,
                           <<>>,
                           <<Response("404", <<>>), Response("200", <<Json(1)>>)>>))>>

\* Two paths, the later in the order of the urls first; a parameter of the
\* path item; a request body with a media type without a schema; a response
\* with two media types; operations without an operationId.
TwoPaths(param, last) ==
    <<PathItem("/b", <<Parameter("id", "path", TRUE, 0)>>,
        ("post" :> Operation("", <<>>,
                             <<Parameter("z", "query", TRUE, param)>>,
                             <<Json(1), MediaTypeObject("text/plain", 0)>>,
                             <<Response("200", <<Json(last),
                                                 MediaTypeObject("text/plain", 1)>>)>>))
        @@ ("delete" :> Operation("", <<>>, <<>>, <<>>, <<Response("404", <<>>)>>))),
      PathItem("/a", <<>>,
        "get" :> Operation("", <<>>,
                           <<Parameter("x", "header", FALSE, param)>>,
                           <<>>,
                           <<Response("200", <<Json(1)>>)>>))>>

\* A path with an operation under head beside the one under get.
WithHead(param) ==
    <<PathItem("/a", <<>>,
        ("head" :> Operation("headThing", <<>>,
                             <<Parameter("id", "path", TRUE, param)>>,
                             <<>>,
                             <<Response("200", <<Json(1)>>)>>))
        @@ ("get" :> Operation("getThing", <<>>,
                               <<Parameter("id", "path", TRUE, param)>>,
                               <<>>,
                               <<Response("200", <<Json(1)>>)>>)))>>

\* The documents over a heap of `last` nodes.
Apis(last) ==
    {[paths |-> paths] :
        paths \in UNION {{OneOperation(param), TwoPaths(param, last), WithHead(param)} :
                            param \in {0, last}}}

WalkInit ==
    /\ heap \in SmallDocuments
    /\ api \in Apis(Len(heap))
    /\ todo = Work(api)
    /\ fieldInstances = <<>>
    /\ endpoints = <<>>
    /\ previous = NoRun
    /\ calls = <<>>
    /\ root = 1
    /\ rootPath = <<>>
    /\ schemaNameCache = <<>>
    /\ sets = <<>>
    /\ stack = <<>>
    /\ out = <<>>
    /\ phase = "walk"
    /\ pruned = {}
    /\ steps = 0

Walking(kind) == phase = "walk" /\ todo # <<>> /\ Head(todo).kind = kind

\* Lines 568-623: the summary row of the operation and the records of its
\* parameters, those of the path item first.
ProcessOperation ==
    /\ Walking("operation")
    /\ LET item == api.paths[Head(todo).path]
           method == Head(todo).method
           operation == item.operations[method]
           allParams == item.parameters \o operation.parameters
           processed == processParameters(schemaNameCache, allParams,
                                          BaseContext(item.url, method, operation))
       IN  /\ endpoints' = Append(endpoints, EndpointSummary(item.url, method, item))
           /\ fieldInstances' = fieldInstances \o processed.records
           /\ schemaNameCache' = processed.cache
    /\ todo' = Tail(todo)
    /\ UNCHANGED <<heap, root, rootPath, sets, stack, out, phase, pruned, steps,
                   api, previous, calls>>

\* Lines 628-639 and 649-660: the root call of flattenSchema on the schema
\* of a body, at the path ''.
FlattenBody ==
    /\ Walking("body")
    /\ LET work == Head(todo)
           item == api.paths[work.path]
           base == BaseContext(item.url, work.method, item.operations[work.method])
           ctx == BodyContext(base, work.location, work.httpStatus, work.mediaType,
                              work.sourceRef, work.schema)
       IN  /\ root' = work.schema
           /\ schemaNameCache' = CacheAfter(schemaNameCache, work.schema, <<>>)
           /\ sets' = <<{}>>
           /\ stack' = <<Frame(work.schema, <<>>, ctx,
                               getSchemaName(schemaNameCache, work.schema, <<>>),
                               "", 1, NoDecl, {})>>
    /\ phase' = "run"
    /\ UNCHANGED <<heap, rootPath, out, pruned, steps, api, todo, fieldInstances,
                   endpoints, previous, calls>>

\* fieldInstances.push(...flattenSchema(...)): the root call has returned.
CollectBody ==
    /\ phase = "done"
    /\ todo # <<>>
    /\ fieldInstances' = fieldInstances \o out
    /\ out' = <<>>
    /\ todo' = Tail(todo)
    /\ phase' = "walk"
    /\ UNCHANGED <<heap, root, rootPath, schemaNameCache, sets, stack, pruned, steps,
                   api, endpoints, previous, calls>>

\* Lines 683-706: the loops are over, the two lists are sorted.
SortFieldInstances ==
    /\ phase = "walk"
    /\ todo = <<>>
    /\ fieldInstances' = sort(fieldInstances, fieldInstanceComparisons(fieldInstances))
    /\ endpoints' = sort(endpoints, endpointComparisons(endpoints))
    /\ phase' = "sorted"
    /\ UNCHANGED <<heap, root, rootPath, schemaNameCache, sets, stack, out, pruned,
                   steps, api, todo, previous, calls>>

\* generateDataDictionary once more in the same process, on the same
\* document object: the lists are new (lines 558-560), the name cache is not.
GenerateAgain ==
    /\ phase = "sorted"
    /\ ~previous.finished
    /\ previous' = [fieldInstances |-> fieldInstances, endpoints |-> endpoints,
                    finished |-> TRUE]
    /\ fieldInstances' = <<>>
    /\ endpoints' = <<>>
    /\ todo' = Work(api)
    /\ phase' = "walk"
    /\ UNCHANGED <<heap, root, rootPath, schemaNameCache, sets, stack, out, pruned,
                   steps, api, calls>>

WalkNext ==
    \/ ProcessOperation
    \/ FlattenBody
    \/ Enter
    \/ HandleAllOf
    \/ HandleOneOf
    \/ HandleAnyOf
    \/ HandleArray
    \/ HandleComplexProperty
    \/ HandleArrayProperty
    \/ HandlePrimitiveProperty
    \/ ReturnObject
    \/ HandlePrimitive
    \/ Return
    \/ CollectBody
    \/ SortFieldInstances
    \/ GenerateAgain

WalkSpec == WalkInit /\ [][WalkNext]_vars

(***************************************************************************)
(* generateDataDictionary on documents with a parameter whose `in` is none *)
(* of query, header, path and cookie.                                      *)
(***************************************************************************)
\* An operation with a path parameter and, declared after it, a parameter
\* that is located at `in`; a request body and a response.
Untyped(in, param) ==
    <<PathItem("/a", <<>>,
        "post" :> Operation("postThing", <<>>,
                            <<Parameter("id", "path", TRUE, 0),
                              Parameter("z", in, FALSE, param)>>,
                            <<Json(1)>>,
                            <<Response("200", <<Json(1)>>)>>))>>

UntypedApis(last) ==
    {[paths |-> Untyped(in, param)] :
        in \in {"body", "formData", "constructor"}, param \in {0, last}}

UntypedInit ==
    /\ heap \in SmallDocuments
    /\ api \in UntypedApis(Len(heap))
    /\ todo = Work(api)
    /\ fieldInstances = <<>>
    /\ endpoints = <<>>
    /\ previous = NoRun
    /\ calls = <<>>
    /\ root = 1
    /\ rootPath = <<>>
    /\ schemaNameCache = <<>>
    /\ sets = <<>>
    /\ stack = <<>>
    /\ out = <<>>
    /\ phase = "walk"
    /\ pruned = {}
    /\ steps = 0

UntypedSpec == UntypedInit /\ [][WalkNext]_vars

(***************************************************************************)
(* What the claims are stated with.                                        *)
(***************************************************************************)
Done == phase = "done"

\* The nodes of the input document (an allOf merge adds nodes to the heap
\* that no input node refers to).
InputNodes == ReachableFrom(heap, {root})

\* A node reachable from itself through properties, items, allOf, oneOf or
\* anyOf.
OnCycle(n) == n \in ReachableFrom(heap, Children(heap[n]))

\* The records as the program has them, without their origin.
Rows(records) ==
    [i \in 1..Len(records) |->
        [f \in DOMAIN records[i] \ {"origin"} |-> records[i][f]]]

FieldPaths(records) == [i \in 1..Len(records) |-> records[i].fieldPath]

Emits(records, fieldPath) == \E i \in 1..Len(records) : records[i].fieldPath = fieldPath

\* The nodes of the calls of the branch that ends in the call at `depth`.
OnBranch(depth) == {stack[d].schema : d \in 1..depth}

\* The object call on top of the stack has gone through all its properties.
ObjectFinished ==
    Running("object") /\ Top.index > Len(heap[Top.schema].properties)

\* The records of `records` below the property `name` of the call `frame`
\* (those of the fields of the property's schema, not the property's own),
\* with the property's name taken out of them.
Below(frame, name, records) ==
    LET k == Len(frame.fieldPath) + 1
        IsBelow(r) == /\ Len(r.origin.path) > k
                      /\ r.origin.path[k] \in {name, name \o "[]"}
        below == SelectSeq(records, IsBelow)
    IN  [i \in 1..Len(below) |->
            LET r == below[i]
            IN  [rest |-> SubSeq(r.origin.path, k + 1, Len(r.origin.path)),
                 items |-> r.origin.path[k] # name,
                 fieldName |-> r.fieldName, type |-> r.type, itemType |-> r.itemType,
                 required |-> r.required, schemaName |-> r.schemaName,
                 description |-> r.description, issues |-> r.issues]]

(***************************************************************************)
(* C1.  For every finite schema graph, graphs with cycles included, the    *)
(* root call of flatten terminates and returns its list of records: a run  *)
(* that has not returned from the root call can take a step, no branch is  *)
(* deeper than twice the number of nodes, and no run takes more steps than *)
(* a bound that depends on the size of the graph alone.                    *)
(***************************************************************************)
\* The most children a call goes through: properties, or oneOf or anyOf
\* members.
FanOut ==
    LET Width(s) == {Len(s.properties), Len(s.oneOf), Len(s.anyOf), 1}
        widths == UNION {Width(heap[n]) : n \in 1..Len(heap)}
    IN  CHOOSE w \in widths : \A v \in widths : v <= w

\* A branch holds every input node at most once, each with at most one
\* merged node below it; a call takes a step to enter, one per child, one to
\* leave its loop and one to return.
StepBound ==
    (FanOut + 3) * (FanOut + 1) ^ (2 * Cardinality(InputNodes) + 1)

FlattenTerminates ==
    /\ Len(stack) <= 2 * Cardinality(InputNodes)
    /\ steps <= StepBound
    /\ Done \/ ENABLED Next

\* A traversal of a graph with a cycle has returned, the cycle guard having
\* ended a call.
FlattenTerminatesWitness ==
    /\ Done
    /\ \E n \in InputNodes : OnCycle(n)
    /\ pruned # {}

(***************************************************************************)
(* C2.  As claimed: flattening Node{ name, children: Node[] } at path root *)
(* yields root.name and root.children[].name and does not yield            *)
(* root.children[].children[].name.                                        *)
(***************************************************************************)
NodeFlattened == Done /\ heap = NodeDocument /\ rootPath = <<"root">>

NodeUnrolledOnce ==
    NodeFlattened =>
        /\ Emits(out, "root.name")
        /\ Emits(out, "root.children[].name")
        /\ ~Emits(out, "root.children[].children[].name")

(***************************************************************************)
(* C2, amended.  Flattening Node at path root yields the records root.name *)
(* and root.children and no other: the item of children is Node itself,    *)
(* which is on the branch, so no call ever emits root.children[].name, nor *)
(* root.children[].children[].name.                                        *)
(***************************************************************************)
NodeCycleCut ==
    heap = NodeDocument /\ rootPath = <<"root">> =>
        /\ \A d \in 1..Len(stack) :
              /\ ~Emits(stack[d].results, "root.children[].name")
              /\ ~Emits(stack[d].results, "root.children[].children[].name")
        /\ Done => FieldPaths(out) = <<"root.name", "root.children">>

\* Node has been flattened, the call on the item of children ended by the
\* cycle guard.
NodeCycleCutWitness ==
    /\ NodeFlattened
    /\ pruned = {[schema |-> 1, path |-> <<"root", "children[]">>]}

(***************************************************************************)
(* C3.  A node N that is not on the current branch and is the schema of    *)
(* two properties of one object, or both members of a oneOf/anyOf, has its *)
(* fields emitted under each of the two: when the object call has gone     *)
(* through its properties, the records below the one property are those    *)
(* below the other, and the records of a composition of N and N are those  *)
(* of N twice.                                                             *)
(***************************************************************************)
DiamondTraversedTwice ==
    /\ ObjectFinished =>
          LET properties == heap[Top.schema].properties
          IN  \A i, j \in 1..Len(properties) :
                  /\ properties[i].schema = properties[j].schema
                  /\ properties[i].schema \notin OnBranch(Len(stack))
                  => Below(Top, properties[i].name, Top.results)
                       = Below(Top, properties[j].name, Top.results)
    /\ \A pc \in {"oneOf", "anyOf"} :
          Running(pc) =>
              LET variants == heap[Top.schema][pc]
                  half == Len(Top.results) \div 2
              IN  /\ Len(variants) = 2
                  /\ Top.index > 2
                  /\ variants[1] = variants[2]
                  /\ variants[1] \notin OnBranch(Len(stack))
                  => /\ Len(Top.results) = 2 * half
                     /\ Rows(SubSeq(Top.results, 1, half))
                          = Rows(SubSeq(Top.results, half + 1, 2 * half))

\* An object has two properties of the same schema, which is not on the
\* branch, and has emitted the fields of that schema below the second.
DiamondTraversedTwiceWitness ==
    /\ ObjectFinished
    /\ LET properties == heap[Top.schema].properties
       IN  \E i, j \in 1..Len(properties) :
              /\ i < j
              /\ properties[i].schema = properties[j].schema
              /\ properties[i].schema \notin OnBranch(Len(stack))
              /\ Below(Top, properties[j].name, Top.results) # <<>>

(***************************************************************************)
(* C4.  The record emitted for a property declared in an object schema O   *)
(* (its summary record or its primitive record), at any depth, has         *)
(* required = Yes exactly when the property's name is in O's own required  *)
(* list.                                                                   *)
(***************************************************************************)
PropertyRows(records) ==
    {i \in 1..Len(records) : records[i].origin.branch \in {"object", "array", "primitive"}}

RequiredIsOwn ==
    Done =>
        \A i \in PropertyRows(out) :
            out[i].required
              = yesNo(out[i].origin.decl.name
                        \in SetOf(heap[out[i].origin.decl.owner].required))

\* A property of a nested object is not required although the list its
\* object was called with (the context's, set by an ancestor) names it, or
\* the other way round.
RequiredIsOwnWitness ==
    /\ Done
    /\ \E i \in PropertyRows(out) :
          /\ Len(out[i].origin.path) > Len(rootPath) + 1
          /\ \E j \in PropertyRows(out) :
                /\ out[j].origin.path
                     = SubSeq(out[i].origin.path, 1, Len(out[i].origin.path) - 1)
                /\ out[j].fieldName = out[i].fieldName
                /\ out[j].required # out[i].required

(***************************************************************************)
(* C5.  As claimed: every record emitted for a field n declared in an      *)
(* object schema O, those of the primitive-array branch and of the         *)
(* root-level-primitive branch reached through a oneOf/anyOf member of the *)
(* field included, has required = Yes exactly when n is in O's required    *)
(* list.                                                                   *)
(***************************************************************************)
FieldRequiredIsDeclared ==
    Done =>
        \A i \in 1..Len(out) :
            out[i].origin.decl # NoDecl =>
                out[i].required
                  = yesNo(out[i].origin.decl.name
                            \in SetOf(heap[out[i].origin.decl.owner].required))

(***************************************************************************)
(* C6.  For oneOf [ A{x}, B{y} ] at path p, flatten yields p.x with issues *)
(* naming variant A and p.y with issues naming variant B; p.x is required  *)
(* exactly when x is in A's required list and p.y exactly when y is in B's.*)
(***************************************************************************)
VariantsIndependent ==
    \A a \in {<<>>, <<"x">>}, b \in {<<>>, <<"y">>} :
        Done /\ heap = VariantDocument(a, b) =>
            /\ Len(out) = 2
            /\ out[1].fieldPath = PathString(rootPath \o <<"x">>)
            /\ out[1].issues = "variant: A"
            /\ out[1].required = yesNo("x" \in SetOf(a))
            /\ out[2].fieldPath = PathString(rootPath \o <<"y">>)
            /\ out[2].issues = "variant: B"
            /\ out[2].required = yesNo("y" \in SetOf(b))

\* The two variants have been flattened at path root, A requiring x and B
\* not requiring y.
VariantsIndependentWitness ==
    /\ Done
    /\ heap = VariantDocument(<<"x">>, <<>>)
    /\ rootPath = <<"root">>
    /\ FieldPaths(out) = <<"root.x", "root.y">>
    /\ out[1].required = "Yes"
    /\ out[2].required = "No"

(***************************************************************************)
(* An issues string carries `text` when text is one of its '; '-separated  *)
(* parts; the other parts are among `others`.                              *)
(***************************************************************************)
Arrangements(S) ==
    {q \in UNION {[1..n -> S] : n \in 1..Cardinality(S)} :
        \A i, j \in DOMAIN q : q[i] = q[j] => i = j}

Carries(issues, text, others) ==
    \E q \in Arrangements(others \cup {text}) :
        /\ text \in SetOf(q)
        /\ issues = Join(q, "; ")

\* What else the issues of a record may hold beside `text`.
OtherIssues(record) ==
    record.origin.merges
    \cup (IF record.origin.label # "" THEN {VariantIssue(record.origin.label)} ELSE {})

(***************************************************************************)
(* C7.  As claimed: every record produced by the recursion into a oneOf or *)
(* anyOf member, whatever the member's shape, carries that member's        *)
(* variant label in its issues field.                                      *)
(***************************************************************************)
VariantLabelOnEveryRecord ==
    Done =>
        \A i \in 1..Len(out) :
            out[i].origin.label # "" =>
                \/ Carries(out[i].issues, VariantIssue(out[i].origin.label),
                           out[i].origin.merges)
                \/ Carries(out[i].issues, out[i].origin.label, out[i].origin.merges)

(***************************************************************************)
(* C8.  As claimed: the label passed down to the i-th member of a oneOf or *)
(* anyOf is the enclosing label, a pipe and the member's name when the     *)
(* member is named, and variant<i> in place of the name when it has no     *)
(* title and no reference name.                                            *)
(***************************************************************************)
VariantLabelNamesMember ==
    \A d \in 2..Len(stack) :
        LET caller == stack[d - 1]
            i == caller.index - 1
            member == heap[heap[caller.schema][caller.pc][i]]
            name == IF member.title # "" THEN member.title
                    ELSE "variant" \o ToString(i)
        IN  caller.pc \in {"oneOf", "anyOf"} =>
                stack[d].variantLabel
                  = IF caller.variantLabel # ""
                    THEN caller.variantLabel \o "|" \o name
                    ELSE name

(***************************************************************************)
(* C9.  As claimed: when the merge of an allOf reports issues, every       *)
(* record produced by the subtree of the merged node carries those issue   *)
(* strings in its issues field.                                            *)
(***************************************************************************)
MergeIssuesOnRecords ==
    Done =>
        \A i \in 1..Len(out) :
            \A issue \in out[i].origin.merges :
                Carries(out[i].issues, issue, OtherIssues(out[i]))

(***************************************************************************)
(* C10.  mergeAllOf returns a node of type object whose properties are the *)
(* union of the members' properties, the last member declaring a name      *)
(* giving its value, whose required list holds exactly the names of the    *)
(* members' required lists, each once, and whose description is that of    *)
(* the first member with a non-empty one.  Stated of the merged node of    *)
(* every allOf call that is waiting for its recursion into it.             *)
(***************************************************************************)
Declares(s, name) == \E i \in 1..Len(s.properties) : s.properties[i].name = name

ValueOf(s, name) ==
    s.properties[CHOOSE i \in 1..Len(s.properties) : s.properties[i].name = name].schema

\* The allOf calls on the stack that have merged: the depth of each.
Merging ==
    {d \in 1..(Len(stack) - 1) :
        stack[d].pc = "tail" /\ Branch(heap[stack[d].schema]) = "allOf"}

MergeIsUnionAt(d) ==
    LET members == heap[stack[d].schema].allOf
        merged == heap[stack[d + 1].schema]
        member(j) == heap[members[j]]
        names == UNION {{member(j).properties[i].name :
                            i \in 1..Len(member(j).properties)} : j \in 1..Len(members)}
        described == {j \in 1..Len(members) : member(j).description # ""}
    IN  /\ merged.type = "object"
        /\ \A i, j \in 1..Len(merged.properties) :
              merged.properties[i].name = merged.properties[j].name => i = j
        /\ {merged.properties[i].name : i \in 1..Len(merged.properties)} = names
        /\ \A name \in names :
              LET last == CHOOSE j \in 1..Len(members) :
                              /\ Declares(member(j), name)
                              /\ \A k \in 1..Len(members) :
                                    Declares(member(k), name) => k <= j
              IN  ValueOf(merged, name) = ValueOf(member(last), name)
        /\ SetOf(merged.required)
             = UNION {SetOf(member(j).required) : j \in 1..Len(members)}
        /\ Cardinality(SetOf(merged.required)) = Len(merged.required)
        /\ merged.description
             = IF described = {} THEN ""
               ELSE member(CHOOSE j \in described : \A k \in described : j <= k).description

MergeIsUnion == \A d \in Merging : MergeIsUnionAt(d)

\* A merge of two members that both declare x, with different schemas, that
\* name a required field more than once between them and both have a
\* description.
MergeIsUnionWitness ==
    \E d \in Merging :
        LET members == heap[stack[d].schema].allOf
            a == heap[members[1]]
            b == heap[members[2]]
        IN  /\ Len(members) = 2
            /\ Declares(a, "x") /\ Declares(b, "x")
            /\ ValueOf(a, "x") # ValueOf(b, "x")
            /\ Len(a.required \o b.required)
                 > Cardinality(SetOf(a.required \o b.required))
            /\ a.description # "" /\ b.description # ""
            /\ a.description # b.description

(***************************************************************************)
(* The records of `records` that stand for the property `name` of the call *)
(* `frame` or for anything below it: its own row, and the rows at name[]   *)
(* and deeper.                                                             *)
(***************************************************************************)
About(frame, name, records) ==
    LET k == Len(frame.fieldPath) + 1
        IsAbout(r) == /\ Len(r.origin.path) >= k
                      /\ r.origin.path[k] \in {name, name \o "[]"}
    IN  SelectSeq(records, IsAbout)

\* A schema with a type that is no object, no array with items and no
\* composition.
IsPrimitive(s) == Branch(s) = "primitive" /\ s.type # ""

\* The properties of the object call on top of the stack whose schema is an
\* array with items (and nothing else: no properties, no composition): the
\* index of each.
ArrayProperties ==
    {i \in 1..Len(heap[Top.schema].properties) :
        LET propSchema == heap[heap[Top.schema].properties[i].schema]
        IN  Branch(propSchema) = "array" /\ ~Has(propSchema, "properties")}

ItemOf(i) == heap[heap[heap[Top.schema].properties[i].schema].items]

(***************************************************************************)
(* C11.  An object property whose schema is an array with primitive items  *)
(* gives exactly one record among all the records its object's call        *)
(* returns: it has the property's path, type array and the declared type   *)
(* of the item as itemType.                                                *)
(***************************************************************************)
PrimitiveArrayCollapses ==
    ObjectFinished =>
        \A i \in ArrayProperties :
            IsPrimitive(ItemOf(i)) =>
                LET name == heap[Top.schema].properties[i].name
                    rows == About(Top, name, Top.results)
                IN  /\ Len(rows) = 1
                    /\ rows[1].fieldPath = PathString(PropPath(Top.fieldPath, name))
                    /\ rows[1].type = "array"
                    /\ rows[1].itemType = ItemOf(i).type

\* An object has gone through a property that is an array of strings.
PrimitiveArrayCollapsesWitness ==
    /\ ObjectFinished
    /\ \E i \in ArrayProperties :
          /\ IsPrimitive(ItemOf(i))
          /\ ItemOf(i).type = "string"

(***************************************************************************)
(* C12.  As claimed: an object property at path q whose schema is an array *)
(* of objects gives exactly one record with fieldPath q, no record for the *)
(* item as a whole (none at q[]), and a record q[].r for each property r   *)
(* of the item object.                                                     *)
(***************************************************************************)
ItemIsObject(i) == Branch(ItemOf(i)) = "object"

ArrayOfObjectsAt(i, descended) ==
    LET name == heap[Top.schema].properties[i].name
        q == PropPath(Top.fieldPath, name)
        rows == About(Top, name, Top.results)
        at(path) == {j \in 1..Len(rows) : rows[j].origin.path = path}
    IN  /\ Cardinality(at(q)) = 1
        /\ \A j \in at(q) : rows[j].type = "array" /\ rows[j].fieldPath = PathString(q)
        /\ at(ArrayPath(q)) = {}
        /\ descended =>
              \A r \in 1..Len(ItemOf(i).properties) :
                  Emits(rows, PathString(PropPath(ArrayPath(q), ItemOf(i).properties[r].name)))

StructuredArrayTransparent ==
    ObjectFinished =>
        \A i \in ArrayProperties : ItemIsObject(i) => ArrayOfObjectsAt(i, TRUE)

(***************************************************************************)
(* C12, amended.  The same, the records q[].r being there when the item    *)
(* object is not on the branch of the call: an item that is on it is cut   *)
(* by the cycle guard and gives no record.                                 *)
(***************************************************************************)
ItemOnBranch(i) ==
    heap[heap[Top.schema].properties[i].schema].items \in OnBranch(Len(stack))

StructuredArrayTransparentOffBranch ==
    ObjectFinished =>
        \A i \in ArrayProperties :
            ItemIsObject(i) =>
                /\ ArrayOfObjectsAt(i, ~ItemOnBranch(i))
                /\ ItemOnBranch(i) =>
                      Len(About(Top, heap[Top.schema].properties[i].name, Top.results)) = 1

\* An object has gone through a property that is an array of objects which
\* are not on the branch and have a property.
StructuredArrayTransparentOffBranchWitness ==
    /\ ObjectFinished
    /\ \E i \in ArrayProperties :
          /\ ItemIsObject(i)
          /\ ~ItemOnBranch(i)
          /\ Len(ItemOf(i).properties) > 0

(***************************************************************************)
(* getSchemaName called directly, on any node and with any refPath, a few  *)
(* times in a row.                                                         *)
(***************************************************************************)
MaxCalls == 3

\* Nodes to name: untitled, titled, and an object with a title.  A heap may
\* hold the same content twice.
NameNodes ==
    {Primitive("string"),
     [Primitive("string") EXCEPT !.title = "A"],
     [Object(<<>>, <<>>) EXCEPT !.title = "B"]}

\* refPath: none, '', a reference, a bare name, a reference ending in '/'.
RefPaths ==
    {<<>>, <<"">>,
     <<"#", "components", "schemas", "Pet">>,
     <<"#", "components", "schemas", "Tag">>,
     <<"Pet">>,
     <<"#", "definitions", "">>}

NameInit ==
    /\ heap \in [1..2 -> NameNodes]
    /\ root = 1
    /\ rootPath = <<>>
    /\ schemaNameCache = <<>>
    /\ sets = <<>>
    /\ stack = <<>>
    /\ out = <<>>
    /\ phase = "names"
    /\ pruned = {}
    /\ steps = 0
    /\ NoDriver

ResolveName ==
    /\ phase = "names"
    /\ Len(calls) < MaxCalls
    /\ \E schema \in 1..Len(heap), refPath \in RefPaths :
          /\ calls' = Append(calls, [schema |-> schema, refPath |-> refPath,
                                     name |-> getSchemaName(schemaNameCache, schema, refPath)])
          /\ schemaNameCache' = CacheAfter(schemaNameCache, schema, refPath)
    /\ UNCHANGED <<heap, root, rootPath, sets, stack, out, phase, pruned, steps,
                   api, todo, fieldInstances, endpoints, previous>>

NameSpec == NameInit /\ [][ResolveName]_vars

\* The call is the first one on its node.
FirstCall(j) == \A i \in 1..(j - 1) : calls[i].schema # calls[j].schema

\* if (refPath): a refPath has been passed and is not ''.
Supplied(refPath) == refPath # <<>> /\ refPath # <<"">>

(***************************************************************************)
(* C14.  Once a node has been resolved, every later getSchemaName on the   *)
(* same node returns the same name, whatever refPath is passed and         *)
(* whatever is resolved in between.                                        *)
(***************************************************************************)
NameIsStable ==
    \A i, j \in 1..Len(calls) :
        calls[i].schema = calls[j].schema => calls[i].name = calls[j].name

\* A node has been resolved, then the other node, then the first again with
\* a refPath that would give another name.
NameIsStableWitness ==
    /\ Len(calls) = 3
    /\ calls[1].schema = calls[3].schema
    /\ calls[2].schema # calls[1].schema
    /\ Supplied(calls[3].refPath)
    /\ calls[3].refPath[Len(calls[3].refPath)] # calls[1].name

(***************************************************************************)
(* C15.  The first getSchemaName on a node returns the last '/'-separated  *)
(* segment of refPath when one is supplied, else the node's title when it  *)
(* has one, else inline/anonymous; a node with the content of a node that  *)
(* is resolved already is resolved by this rule all the same.              *)
(***************************************************************************)
FirstNameByRule ==
    \A j \in 1..Len(calls) :
        FirstCall(j) =>
            calls[j].name
              = IF Supplied(calls[j].refPath)
                THEN calls[j].refPath[Len(calls[j].refPath)]
                ELSE IF heap[calls[j].schema].title # ""
                THEN heap[calls[j].schema].title
                ELSE "inline/anonymous"

\* Two nodes of the same content: the one resolved through a reference, the
\* other then resolved for the first time with none, to another name.
FirstNameByRuleWitness ==
    /\ heap[1] = heap[2]
    /\ \E i, j \in 1..Len(calls) :
          /\ i < j
          /\ FirstCall(j)
          /\ calls[i].schema # calls[j].schema
          /\ Supplied(calls[i].refPath)
          /\ ~Supplied(calls[j].refPath)
          /\ calls[i].name # calls[j].name

(***************************************************************************)
(* buildConstraints.  The value of a constraint key is undefined (the key  *)
(* is absent), a string, a number or a list of strings and numbers.        *)
(***************************************************************************)
Undefined == [kind |-> "undefined"]
Str(s) == [kind |-> "string", s |-> s]
Num(n) == [kind |-> "number", n |-> n]
List(items) == [kind |-> "list", items |-> items]

\* if (value): a non-empty string, a number that is not 0, any list.
Truthy(value) ==
    CASE value.kind = "undefined" -> FALSE
      [] value.kind = "string" -> value.s # ""
      [] value.kind = "number" -> value.n # 0
      [] OTHER -> TRUE

\* `${value}`
RECURSIVE Text(_)
Text(value) ==
    CASE value.kind = "undefined" -> "undefined"
      [] value.kind = "string" -> value.s
      [] value.kind = "number" -> ToString(value.n)
      [] OTHER -> Join([i \in 1..Len(value.items) |-> Text(value.items[i])], ",")

\* list.join(sep)
JoinValues(list, sep) ==
    Join([i \in 1..Len(list.items) |-> Text(list.items[i])], sep)

\* The keys tested with !== undefined, in the order of the source.
NumericKeys == <<"minLength", "maxLength", "minimum", "maximum", "minItems", "maxItems">>

\* The parts of a list that are not ''.
Pushed(parts) == SelectSeq(parts, LAMBDA part : part # "")

buildConstraints(schema) ==
    LET numeric == [i \in 1..Len(NumericKeys) |->
                       IF schema[NumericKeys[i]] # Undefined
                       THEN NumericKeys[i] \o "=" \o Text(schema[NumericKeys[i]])
                       ELSE ""]
        constraints ==
            <<IF Truthy(schema.pattern) THEN "pattern=" \o Text(schema.pattern) ELSE "">>
            \o numeric
            \o <<IF Truthy(schema.enum)
                 THEN "enum=[" \o JoinValues(schema.enum, ", ") \o "]" ELSE "",
                 IF schema.const # Undefined
                 THEN "const=" \o Text(schema.const) ELSE "">>
    IN  Join(Pushed(constraints), "; ")

\* The schemas buildConstraints is called on.
Patterns == {Undefined, Str(""), Str("^[A-Z]+$")}
Limits == {Undefined, Num(0), Num(1)}
Enums == {Undefined, List(<<>>), List(<<Str("A"), Str("B")>>), List(<<Num(1), Str("A")>>)}
Consts == {Undefined, Str("A"), Num(0)}

ConstrainedSchemas ==
    [pattern : Patterns, minLength : Limits, maxLength : Limits, minimum : Limits,
     maximum : Limits, minItems : {Undefined, Num(1)}, maxItems : {Undefined, Num(1)},
     enum : Enums, const : Consts]

ConstraintInit ==
    /\ heap = <<>>
    /\ root = 1
    /\ rootPath = <<>>
    /\ schemaNameCache = <<>>
    /\ sets = <<>>
    /\ stack = <<>>
    /\ out = <<>>
    /\ phase = "constraints"
    /\ pruned = {}
    /\ steps = 0
    /\ NoDriver

BuildConstraints ==
    /\ phase = "constraints"
    /\ calls = <<>>
    /\ \E schema \in ConstrainedSchemas :
          calls' = <<[schema |-> schema, constraints |-> buildConstraints(schema)]>>
    /\ UNCHANGED <<heap, root, rootPath, schemaNameCache, sets, stack, out, phase,
                   pruned, steps, api, todo, fieldInstances, endpoints, previous>>

ConstraintSpec == ConstraintInit /\ [][BuildConstraints]_vars

(***************************************************************************)
(* C16.  As claimed: buildConstraints lists exactly the constraints that   *)
(* are present on the schema, each as key=value, in the order pattern,     *)
(* minLength, maxLength, minimum, maximum, minItems, maxItems, enum,       *)
(* const, joined by '; ', enum as a bracketed list joined by ', ', and     *)
(* gives '' when none is present; pattern ^[A-Z]+$, minLength 1 and enum   *)
(* [A, B] give 'pattern=^[A-Z]+$; minLength=1; enum=[A, B]'.               *)
(***************************************************************************)
ConstraintKeys ==
    <<"pattern">> \o NumericKeys \o <<"enum", "const">>

PresentKeys(schema) == SelectSeq(ConstraintKeys, LAMBDA key : schema[key] # Undefined)

KeyValue(schema, key) ==
    key \o "=" \o (IF key = "enum" THEN "[" \o JoinValues(schema.enum, ", ") \o "]"
                   ELSE Text(schema[key]))

ConstraintsArePresentOnes ==
    \A i \in 1..Len(calls) :
        LET schema == calls[i].schema
            present == PresentKeys(schema)
        IN  /\ calls[i].constraints
                 = Join([k \in 1..Len(present) |-> KeyValue(schema, present[k])], "; ")
            /\ (/\ present = <<"pattern", "minLength", "enum">>
                /\ schema.pattern = Str("^[A-Z]+$")
                /\ schema.minLength = Num(1)
                /\ schema.enum = List(<<Str("A"), Str("B")>>))
               => calls[i].constraints = "pattern=^[A-Z]+$; minLength=1; enum=[A, B]"

(***************************************************************************)
(* C19.  As claimed: flattenSchema never raises an error, whatever the     *)
(* schema: a sub-schema with no type, an array with no items, a property   *)
(* whose value is empty or null give records with default or empty values  *)
(* and the traversal goes on.                                              *)
(***************************************************************************)
FlattenNeverRaises == phase # "raised"

(***************************************************************************)
(* generateDataDictionary run twice.                                       *)
(***************************************************************************)
RanTwice == phase = "sorted" /\ previous.finished

\* Two records that no key of the sort tells apart.
Tie(a, b) == compareFieldInstances(a, b) = 0

\* C13: the walk, the flattening and the sort run twice in one process on the
\* same document object, with the name cache shared, give two record lists
\* that are equal element by element, the order of the records that tie on
\* every sort key included (and two equal lists of summary rows).
RunsAgree ==
    RanTwice =>
        /\ Rows(fieldInstances) = Rows(previous.fieldInstances)
        /\ endpoints = previous.endpoints

\* The second run is over, it found names in the cache of the first, and
\* its list has two different records that tie on every sort key.
RunsAgreeWitness ==
    /\ RanTwice
    /\ \E n \in DOMAIN schemaNameCache : schemaNameCache[n] # Anonymous
    /\ \E i, j \in 1..Len(fieldInstances) :
          /\ i < j
          /\ Tie(fieldInstances[i], fieldInstances[j])
          /\ Rows(<<fieldInstances[i]>>) # Rows(<<fieldInstances[j]>>)

(***************************************************************************)
(* The order of the sorted list.                                           *)
(***************************************************************************)
Sorted == phase = "sorted"

Priority(location) ==
    CASE location = "path_param" -> 1
      [] location = "query_param" -> 2
      [] location = "header_param" -> 3
      [] location = "cookie_param" -> 4
      [] location = "request_body" -> 5
      [] location = "response_body" -> 6

\* The key tuple of a record, its strings as the characters the collation
\* goes through.
KeyTuple(record) ==
    <<Spelling[record.path], Spelling[record.method], Priority(record.location),
      Spelling[record.httpStatus], SpellPath(record.origin.path)>>

\* -1, 0 or 1: how the k-th keys of two tuples compare.
KeyCompare(s, t, k) ==
    IF k = 3 THEN (IF s[k] < t[k] THEN -1 ELSE IF s[k] > t[k] THEN 1 ELSE 0)
    ELSE localeCompare(s[k], t[k])

\* s <= t in the order of the tuples: the first key on which they differ, if
\* any, is smaller in s.
TupleLeq(s, t) ==
    \/ \A k \in 1..5 : KeyCompare(s, t, k) = 0
    \/ \E k \in 1..5 :
          /\ KeyCompare(s, t, k) < 0
          /\ \A h \in 1..(k - 1) : KeyCompare(s, t, h) = 0

SameOperation(a, b) == a.path = b.path /\ a.method = b.method

\* C17: in the sorted list the key tuple (path, method, priority of the
\* location, httpStatus with the empty one first, fieldPath) of a record is
\* less than or equal to that of every record placed after it; a path_param
\* record comes before every response_body record of its path and method.
SortedByKeyTuple ==
    Sorted =>
        /\ \A i, j \in 1..Len(fieldInstances) :
              i < j => TupleLeq(KeyTuple(fieldInstances[i]), KeyTuple(fieldInstances[j]))
        /\ \A i, j \in 1..Len(fieldInstances) :
              /\ SameOperation(fieldInstances[i], fieldInstances[j])
              /\ fieldInstances[i].location = "path_param"
              /\ fieldInstances[j].location = "response_body"
              => i < j

\* A sorted list of a document whose paths are not in the order of the sort,
\* with a path_param record and a response_body record of one operation, and
\* with two records of one operation that the location puts in the order
\* opposite to the one of their field paths.
SortedByKeyTupleWitness ==
    /\ Sorted
    /\ Len(api.paths) > 1
    /\ localeCompare(Spelling[api.paths[1].url], Spelling[api.paths[2].url]) > 0
    /\ \E i, j \in 1..Len(fieldInstances) :
          /\ SameOperation(fieldInstances[i], fieldInstances[j])
          /\ fieldInstances[i].location = "path_param"
          /\ fieldInstances[j].location = "response_body"
    /\ \E i, j \in 1..Len(fieldInstances) :
          /\ i < j
          /\ SameOperation(fieldInstances[i], fieldInstances[j])
          /\ fieldInstances[i].httpStatus = fieldInstances[j].httpStatus
          /\ Priority(fieldInstances[i].location) < Priority(fieldInstances[j].location)
          /\ localeCompare(SpellPath(fieldInstances[i].origin.path),
                           SpellPath(fieldInstances[j].origin.path)) > 0

(***************************************************************************)
(* The records of the parameters.                                          *)
(***************************************************************************)
\* The parameters of the operation that is next in the walk, those of its
\* path item first.
NextParameters ==
    LET item == api.paths[Head(todo).path]
    IN  item.parameters \o item.operations[Head(todo).method].parameters

ParameterLocations == {"path_param", "query_param", "header_param", "cookie_param"}

\* A schema with something below it: properties, items or a composition.
Nested(schema) ==
    /\ ~IsNull(schema)
    /\ \E key \in {"properties", "items", "allOf", "oneOf", "anyOf"} : Has(heap[schema], key)

\* C18: the parameters of an operation add exactly one record each to the
\* list, in their order and under their own name, whatever their schema is
\* (an object with properties, an array, a composition): no record is added
\* for a property or an item inside the schema of a parameter.
OneRecordPerParameter ==
    [][ProcessOperation =>
          /\ Len(fieldInstances') = Len(fieldInstances) + Len(NextParameters)
          /\ \A k \in 1..Len(NextParameters) :
                LET record == fieldInstances'[Len(fieldInstances) + k]
                IN  /\ record.fieldPath = NextParameters[k].name
                    /\ record.fieldName = NextParameters[k].name
                    /\ record.location \in ParameterLocations
                    /\ record.sourceRef = "parameters." \o NextParameters[k].name]_vars

\* The records of the parameters of an operation are in the list, one of
\* them of a parameter whose schema has properties and one more of a
\* parameter of the same operation.
OneRecordPerParameterWitness ==
    /\ phase = "walk"
    /\ \E i, j \in 1..Len(fieldInstances) :
          /\ i # j
          /\ SameOperation(fieldInstances[i], fieldInstances[j])
          /\ fieldInstances[i].location \in ParameterLocations
          /\ fieldInstances[j].location \in ParameterLocations
          /\ Nested(fieldInstances[i].origin.schema)
          /\ Has(heap[fieldInstances[i].origin.schema], "properties")
          /\ heap[fieldInstances[i].origin.schema].properties # <<>>

(***************************************************************************)
(* The operations of the document and the rows of the walk.                *)
(***************************************************************************)
\* The summary rows of the operation declared under `method` in a path item.
EndpointRows(item, method) ==
    {i \in 1..Len(endpoints) :
        endpoints[i].path = item.url /\ endpoints[i].method = toUpperCase(method)}

\* A record of the parameter of the operation is in the list.
ParameterRecorded(item, method, param) ==
    \E i \in 1..Len(fieldInstances) :
        /\ fieldInstances[i].path = item.url
        /\ fieldInstances[i].method = toUpperCase(method)
        /\ fieldInstances[i].fieldPath = param.name
        /\ fieldInstances[i].location \in ParameterLocations

\* C20: when the walk is over, every operation declared in the document,
\* under whatever HTTP method of whatever path, has exactly one endpoint
\* summary row, and each of its parameters has a field record.
EveryOperationWalked ==
    Sorted =>
        \A p \in 1..Len(api.paths) :
            \A method \in DOMAIN api.paths[p].operations :
                LET item == api.paths[p]
                    operation == item.operations[method]
                IN  /\ Cardinality(EndpointRows(item, method)) = 1
                    /\ \A k \in 1..Len(operation.parameters) :
                          ParameterRecorded(item, method, operation.parameters[k])

(***************************************************************************)
(* The issues of a merge.                                                  *)
(***************************************************************************)
\* The members of a list whose declared type is present and is not object.
TypedNonObjects(members) ==
    SelectSeq(members, LAMBDA member : heap[member].type \notin {"", "object"})

\* C21: mergeAllOf returns one issue string for each member whose declared
\* type is present and differs from object, in the order of the members, and
\* none for any other member; the merged node is returned in every case and
\* the traversal goes on into it.  Stated of every allOf call that is waiting
\* for its recursion into the merged node.
IssuePerNonObjectMember ==
    \A d \in Merging :
        LET others == TypedNonObjects(heap[stack[d].schema].allOf)
        IN  /\ stack[d].issues
                 = [i \in 1..Len(others) |->
                       "allOf contains non-object type: " \o heap[others[i]].type]
            /\ stack[d + 1].schema \in DOMAIN heap
            /\ stack[d + 1].schema \notin InputNodes
            /\ heap[stack[d + 1].schema].type = "object"

\* A merge of a member without a type and a member whose type is no object:
\* one issue, for the second member.
IssuePerNonObjectMemberWitness ==
    \E d \in Merging :
        LET members == heap[stack[d].schema].allOf
        IN  /\ Len(members) = 2
            /\ heap[members[1]].type = ""
            /\ heap[members[2]].type \notin {"", "object"}
            /\ Len(stack[d].issues) = 1

(***************************************************************************)
(* The order of the records of an object.                                  *)
(***************************************************************************)
\* The property of the object call `frame` that a record of the call is
\* about: its index in the declaration order.
PropertyOf(frame, record) ==
    LET k == Len(frame.fieldPath) + 1
        properties == heap[frame.schema].properties
    IN  CHOOSE i \in 1..Len(properties) :
            record.origin.path[k] \in {properties[i].name, properties[i].name \o "[]"}

\* The record is the one the call `frame` emitted for its property `name`.
SummaryOf(frame, name, record) ==
    /\ record.origin.branch \in {"object", "array", "primitive"}
    /\ record.origin.decl = Decl(frame.schema, name)
    /\ record.origin.path = PropPath(frame.fieldPath, name)
    /\ record.fieldName = name

\* C22: the records flatten returns are in pre-order.  When an object call
\* has gone through its properties, its records are in the declaration
\* order of the properties they are about, and the records about one
\* property begin with the record the call emitted for the property itself,
\* which is followed by those of the recursion into the property.
RecordsInPreOrder ==
    ObjectFinished =>
        LET properties == heap[Top.schema].properties
        IN  /\ \A a, b \in 1..Len(Top.results) :
                  a < b => PropertyOf(Top, Top.results[a]) <= PropertyOf(Top, Top.results[b])
            /\ \A i \in 1..Len(properties) :
                  LET about == About(Top, properties[i].name, Top.results)
                  IN  /\ about # <<>>
                      /\ SummaryOf(Top, properties[i].name, about[1])
                      /\ \A j \in 2..Len(about) :
                            ~SummaryOf(Top, properties[i].name, about[j])

\* An object call with two properties has gone through them, and the
\* recursion into each has produced records.
RecordsInPreOrderWitness ==
    /\ ObjectFinished
    /\ LET properties == heap[Top.schema].properties
       IN  /\ Len(properties) = 2
           /\ Len(About(Top, properties[1].name, Top.results)) > 1
           /\ Len(About(Top, properties[2].name, Top.results)) > 1

(***************************************************************************)
(* The rule a call applies.                                                *)
(***************************************************************************)
NonEmpty(s, key) == Has(s, key) /\ Len(s[key]) > 0

\* The calls that have passed the cycle guard: the depth of each.
Entered == {d \in 1..Len(stack) : stack[d].schema \in sets[stack[d].visited]}

\* The records of a call that the call emitted itself.
OwnRecords(frame) ==
    SelectSeq(frame.results, LAMBDA record : record.origin.schema = frame.schema)

\* The call it is waiting for, if any, is on `schema` at `fieldPath`.
Calls(d, schemas, fieldPath) ==
    d < Len(stack) =>
        /\ stack[d + 1].schema \in schemas
        /\ stack[d + 1].fieldPath = fieldPath

\* C23: flatten applies the first rule that matches, in the order allOf,
\* oneOf, anyOf, array with items, object, root-level primitive.  A node
\* with a non-empty allOf is processed as allOf alone (the only call is the
\* one into the merged node, under the same label, and the call emits no
\* record of its own), whatever else it has; a node with a non-empty oneOf
\* and no allOf is processed as oneOf alone (its calls are on its members,
\* at its own path and under a longer label), also when it has anyOf,
\* properties or items; and so on down the order.
FirstMatchingRule ==
    \A d \in Entered :
        LET frame == stack[d]
            s == heap[frame.schema]
            branches == {OwnRecords(frame)[i].origin.branch :
                            i \in 1..Len(OwnRecords(frame))}
            members(key) == SetOf(s[key])
            variant == d < Len(stack) => stack[d + 1].variantLabel # frame.variantLabel
            same == d < Len(stack) => stack[d + 1].variantLabel = frame.variantLabel
        IN  IF NonEmpty(s, "allOf")
            THEN /\ branches = {}
                 /\ Calls(d, DOMAIN heap \ InputNodes, frame.fieldPath)
                 /\ same
            ELSE IF NonEmpty(s, "oneOf")
            THEN /\ branches = {}
                 /\ Calls(d, members("oneOf"), frame.fieldPath)
                 /\ variant
            ELSE IF NonEmpty(s, "anyOf")
            THEN /\ branches = {}
                 /\ Calls(d, members("anyOf"), frame.fieldPath)
                 /\ variant
            ELSE IF s.type = "array" /\ Has(s, "items")
            THEN /\ branches \subseteq {"primitiveArray"}
                 /\ Calls(d, {s.items}, ArrayPath(frame.fieldPath))
                 /\ same
            ELSE IF s.type = "object" \/ Has(s, "properties")
            THEN /\ branches \subseteq {"object", "array", "primitive"}
                 /\ d < Len(stack) => Len(stack[d + 1].fieldPath) = Len(frame.fieldPath) + 1
                 /\ same
            ELSE /\ branches \subseteq {"rootPrimitive"}
                 /\ d = Len(stack)

\* A call on a node with allOf, oneOf, anyOf and properties is waiting for
\* the call into its merged node, and below it a call on a node with oneOf,
\* anyOf, properties and items is waiting for the call on a member.
FirstMatchingRuleWitness ==
    \E d, e \in Entered :
        /\ d < e
        /\ e < Len(stack)
        /\ \A key \in {"allOf", "oneOf", "anyOf"} : NonEmpty(heap[stack[d].schema], key)
        /\ Has(heap[stack[d].schema], "properties")
        /\ ~Has(heap[stack[e].schema], "allOf")
        /\ \A key \in {"oneOf", "anyOf", "properties"} : NonEmpty(heap[stack[e].schema], key)
        /\ Has(heap[stack[e].schema], "items")

(***************************************************************************)
(* The context of the records.                                             *)
(***************************************************************************)
\* The fields of a context that say where a record is from.
ContextFields ==
    {"operationId", "method", "path", "tags", "summary", "location", "httpStatus",
     "mediaType", "sourceRef"}

\* The body generateDataDictionary is flattening the schema of.
Flattening == phase \in {"run", "done"} /\ todo # <<>> /\ Head(todo).kind = "body"

\* What the context of the root call on that body holds, from the document.
BodyFields ==
    LET work == Head(todo)
        item == api.paths[work.path]
        operation == item.operations[work.method]
    IN  [operationId |-> IF operation.operationId # "" THEN operation.operationId
                         ELSE sanitizeOperationId(work.method, item.url),
         method |-> toUpperCase(work.method),
         path |-> item.url,
         tags |-> Join(operation.tags, ", "),
         summary |-> operation.summary,
         location |-> work.location,
         httpStatus |-> work.httpStatus,
         mediaType |-> work.mediaType,
         sourceRef |-> work.sourceRef]

\* C24: every record of one root call of flatten, at every depth, carries
\* the operationId, method, path, tags, summary, location, httpStatus,
\* mediaType and sourceRef of the context the root call was given, and so
\* does the context of every call below the root call: the recursion
\* changes the required-field set of the context and nothing else.
ContextCarriedDown ==
    Flattening =>
        /\ \A d \in 1..Len(stack) :
              /\ \A f \in ContextFields : stack[d].ctx[f] = BodyFields[f]
              /\ DOMAIN stack[d].ctx = ContextFields \cup {"requiredFields"}
              /\ \A i \in 1..Len(stack[d].results) :
                    \A f \in ContextFields : stack[d].results[i][f] = BodyFields[f]
        /\ \A i \in 1..Len(out) :
              \A f \in ContextFields : out[i][f] = BodyFields[f]

\* The root call on a response body has returned a record of a field two
\* levels down, whose object has another required list than the root's,
\* after the records of a request body of another context were collected.
ContextCarriedDownWitness ==
    /\ Flattening
    /\ phase = "done"
    /\ Head(todo).location = "response_body"
    /\ \E i \in 1..Len(fieldInstances) : fieldInstances[i].location = "request_body"
    /\ \E i \in 1..Len(out) :
          /\ Len(out[i].origin.path) >= 2
          /\ out[i].origin.decl # NoDecl
          /\ heap[out[i].origin.decl.owner].required # heap[root].required

(***************************************************************************)
(* The document during a traversal.                                        *)
(***************************************************************************)
\* C25: no step of flatten or of mergeAllOf changes a schema node that
\* exists: every node of the heap, the members of an allOf list included,
\* has after the step the fields, with the values, it had before it (a
\* merge adds a node and changes none).
NodesUnchanged ==
    [][\A n \in DOMAIN heap : n \in DOMAIN heap' /\ heap'[n] = heap[n]]_vars

\* A traversal that has merged an allOf of two members with properties and
\* required lists has returned.
NodesUnchangedWitness ==
    /\ Done
    /\ \E n \in InputNodes :
          /\ Len(heap[n].allOf) = 2
          /\ \A i \in 1..2 :
                /\ heap[heap[n].allOf[i]].properties # <<>>
                /\ heap[heap[n].allOf[i]].required # <<>>
    /\ Len(heap) > Cardinality(InputNodes)
    /\ out # <<>>

(***************************************************************************)
(* The reference flatten: the same rules, with a visited set that is never *)
(* changed.  A call that is not cut takes `visited` plus its node as a new *)
(* set and gives that set to every call it makes.  It works on the nodes   *)
(* themselves and on their identities; the identity of a merged node is    *)
(* one no other node of the branch has.  A name is the title, or           *)
(* inline/anonymous.                                                       *)
(***************************************************************************)
ReferenceName(s) == IF s.title # "" THEN s.title ELSE Anonymous

ReferenceOrigin == [branch |-> "reference"]

RECURSIVE ReferenceFlatten(_, _, _, _, _, _, _)
RECURSIVE ReferenceVariants(_, _, _, _, _, _, _)
RECURSIVE ReferenceProperties(_, _, _, _, _, _, _)

ReferenceFlatten(s, id, fieldPath, ctx, parentSchemaName, variantLabel, visited) ==
    IF id \in visited THEN <<>>
    ELSE LET below == visited \cup {id}
         IN  IF NonEmpty(s, "allOf")
             THEN ReferenceFlatten(mergeAllOfSchemas(s.allOf).merged, -Cardinality(below),
                                   fieldPath, ctx,
                                   OrElse(ReferenceName(s), parentSchemaName),
                                   variantLabel, below)
             ELSE IF NonEmpty(s, "oneOf")
             THEN ReferenceVariants(s.oneOf, 1, fieldPath, ctx, parentSchemaName,
                                    variantLabel, below)
             ELSE IF NonEmpty(s, "anyOf")
             THEN ReferenceVariants(s.anyOf, 1, fieldPath, ctx, parentSchemaName,
                                    variantLabel, below)
             ELSE IF s.type = "array" /\ Has(s, "items")
             THEN LET item == heap[s.items]
                      fieldName == LastSegment(fieldPath, "items")
                  IN  IF IsComplex(item)
                      THEN ReferenceFlatten(item, s.items, ArrayPath(fieldPath), ctx,
                                            OrElse(ReferenceName(item), parentSchemaName),
                                            variantLabel, below)
                      ELSE <<FieldInstance(ctx, parentSchemaName, ArrayPath(fieldPath),
                                           fieldName \o "[]", "array", item.type,
                                           yesNo(fieldName \in ctx.requiredFields),
                                           OrElse(s.description, item.description), "",
                                           ReferenceOrigin)>>
             ELSE IF s.type = "object" \/ Has(s, "properties")
             THEN ReferenceProperties(s, 1, fieldPath, ctx, parentSchemaName,
                                      variantLabel, below)
             ELSE IF s.type # "" /\ ~Has(s, "properties") /\ ~Has(s, "items")
             THEN <<FieldInstance(ctx, parentSchemaName, fieldPath,
                                  LastSegment(fieldPath, "value"), s.type, "",
                                  yesNo(LastSegment(fieldPath, "value") \in ctx.requiredFields),
                                  s.description, "", ReferenceOrigin)>>
             ELSE <<>>

ReferenceVariants(variants, index, fieldPath, ctx, parentSchemaName, variantLabel, below) ==
    IF index > Len(variants) THEN <<>>
    ELSE LET variant == heap[variants[index]]
             name == OrElse(ReferenceName(variant), "variant" \o ToString(index))
             label == IF variantLabel # "" THEN variantLabel \o "|" \o name ELSE name
         IN  ReferenceFlatten(variant, variants[index], fieldPath, ctx, parentSchemaName,
                              label, below)
             \o ReferenceVariants(variants, index + 1, fieldPath, ctx, parentSchemaName,
                                  variantLabel, below)

ReferenceProperties(s, index, fieldPath, ctx, parentSchemaName, variantLabel, below) ==
    IF index > Len(s.properties) THEN <<>>
    ELSE LET prop == s.properties[index]
             propSchema == heap[prop.schema]
             propPath == PropPath(fieldPath, prop.name)
             propSchemaName == OrElse(ReferenceName(propSchema), parentSchemaName)
             row(type, itemType) ==
                 FieldInstance(ctx, propSchemaName, propPath, prop.name, type, itemType,
                               yesNo(prop.name \in SetOf(s.required)),
                               propSchema.description, VariantIssue(variantLabel),
                               ReferenceOrigin)
             inner(schema) == [ctx EXCEPT !.requiredFields = SetOf(schema.required)]
             records ==
                 IF IsComplex(propSchema)
                 THEN <<row(OrElse(propSchema.type, "object"), "")>>
                      \o ReferenceFlatten(propSchema, prop.schema, propPath,
                                          inner(propSchema), propSchemaName,
                                          variantLabel, below)
                 ELSE IF propSchema.type = "array" /\ Has(propSchema, "items")
                 THEN LET item == heap[propSchema.items]
                      IN  <<row("array",
                                OrElse(item.type,
                                       IF Has(item, "properties") THEN "object" ELSE ""))>>
                          \o (IF IsComplex(item)
                              THEN ReferenceFlatten(item, propSchema.items,
                                                    ArrayPath(propPath), inner(item),
                                                    OrElse(ReferenceName(item), propSchemaName),
                                                    variantLabel, below)
                              ELSE <<>>)
                 ELSE <<row(propSchema.type, "")>>
         IN  records
             \o ReferenceProperties(s, index + 1, fieldPath, ctx, parentSchemaName,
                                    variantLabel, below)

\* What the reference returns for the root call.
Reference ==
    ReferenceFlatten(heap[root], root, rootPath, RootContext(root),
                     ReferenceName(heap[root]), "", {})

\* C26: the flatten of the code, which adds the node to the set it was given
\* and hands that very set (allOf, item of a root array) or a copy of it
\* (property, item of a property array, oneOf/anyOf member) to the calls it
\* makes, returns for every schema graph the list of records the reference
\* returns.
SameAsReference == Done => Rows(out) = Rows(Reference)

\* A traversal has returned that went through an allOf, whose merged node
\* is entered on the set of the caller, where the cycle guard ended a call
\* and one node emitted records under two different paths.
SameAsReferenceWitness ==
    /\ Done
    /\ out # <<>>
    /\ pruned # {}
    /\ \E n \in InputNodes : NonEmpty(heap[n], "allOf")
    /\ \E i, j \in 1..Len(out) :
          /\ i # j
          /\ out[i].origin.schema = out[j].origin.schema
          /\ out[i].origin.path # out[j].origin.path

(***************************************************************************)
(* A node with an allOf and with properties of its own.                    *)
(***************************************************************************)
\* The names the members of an allOf declare, and the names they require.
MemberNames(s) ==
    UNION {{heap[s.allOf[j]].properties[i].name :
               i \in 1..Len(heap[s.allOf[j]].properties)} : j \in 1..Len(s.allOf)}

MemberRequired(s) == UNION {SetOf(heap[s.allOf[j]].required) : j \in 1..Len(s.allOf)}

\* C27: a node with a non-empty allOf that also declares properties or a
\* required list of its own gives records for the properties of its members
\* only.  Every record of a call on such a node is about a property that a
\* member declares, and the record of such a property is required exactly
\* when a member requires it: the node's own properties have no record and
\* its own required list changes no flag.
OwnPropertiesShadowed ==
    \A d \in Entered :
        LET frame == stack[d]
            s == heap[frame.schema]
            k == Len(frame.fieldPath) + 1
        IN  NonEmpty(s, "allOf") =>
                \A i \in 1..Len(frame.results) :
                    LET record == frame.results[i]
                    IN  /\ Len(record.origin.path) >= k
                        /\ \E name \in MemberNames(s) :
                              record.origin.path[k] \in {name, name \o "[]"}
                        /\ Len(record.origin.path) = k
                           /\ record.origin.branch \in {"object", "array", "primitive"}
                           => record.required
                                = yesNo(record.origin.path[k] \in MemberRequired(s))

\* A call on a node with an allOf, with a property of its own that no member
\* declares and with a required list that names a property of a member that
\* no member requires, has its records: one of that property, not required.
OwnPropertiesShadowedWitness ==
    \E d \in Entered :
        LET frame == stack[d]
            s == heap[frame.schema]
        IN  /\ NonEmpty(s, "allOf")
            /\ frame.pc = "return"
            /\ Declares(s, "own")
            /\ "own" \notin MemberNames(s)
            /\ "x" \in SetOf(s.required) \ MemberRequired(s)
            /\ \E i \in 1..Len(frame.results) :
                  /\ frame.results[i].origin.path = PropPath(frame.fieldPath, "x")
                  /\ frame.results[i].required = "No"

(***************************************************************************)
(* flattenSchema after names were resolved from reference paths: before    *)
(* the root call, getSchemaName is called on nodes of the document with a  *)
(* refPath, a reference or a reference ending in '/'.                      *)
(***************************************************************************)
ReferencePaths ==
    {<<"#", "components", "schemas", "Pet">>, <<"#", "definitions", "">>}

ResolvedInit ==
    /\ heap \in SmallDocuments
    /\ rootPath = <<>>
    /\ root = 1
    /\ schemaNameCache = <<>>
    /\ sets = <<>>
    /\ stack = <<>>
    /\ out = <<>>
    /\ phase = "init"
    /\ pruned = {}
    /\ steps = 0
    /\ NoDriver

ResolveBefore ==
    /\ phase = "init"
    /\ Len(calls) < MaxCalls - 1
    /\ \E schema \in 1..Len(heap), refPath \in ReferencePaths :
          /\ calls' = Append(calls, [schema |-> schema, refPath |-> refPath,
                                     name |-> getSchemaName(schemaNameCache, schema, refPath)])
          /\ schemaNameCache' = CacheAfter(schemaNameCache, schema, refPath)
    /\ UNCHANGED <<heap, root, rootPath, sets, stack, out, phase, pruned, steps,
                   api, todo, fieldInstances, endpoints, previous>>

ResolvedNext == ResolveBefore \/ Next

ResolvedSpec == ResolvedInit /\ [][ResolvedNext]_vars

\* No name resolved so far is empty.
NamesNonEmpty ==
    /\ \A i \in 1..Len(calls) : calls[i].name # ""
    /\ \A n \in DOMAIN schemaNameCache : schemaNameCache[n] # ""

\* The records of the properties of objects carry the resolved name of the
\* schema of their property.
PropertiesNamedAfterOwnSchema ==
    \A d \in 1..Len(stack) :
        \A i \in PropertyRows(stack[d].results) :
            LET record == stack[d].results[i]
                owner == heap[record.origin.decl.owner]
                propSchema == ValueOf(owner, record.origin.decl.name)
            IN  /\ propSchema \in DOMAIN schemaNameCache
                /\ record.schemaName = schemaNameCache[propSchema]
                /\ record.schemaName # ""

NoEmptySegment ==
    \A i \in 1..Len(calls) :
        calls[i].refPath = <<>> \/ calls[i].refPath[Len(calls[i].refPath)] # ""

BackProperties ==
    {i \in 1..Len(heap[Top.schema].properties) :
        LET propSchema == heap[Top.schema].properties[i].schema
        IN  \/ propSchema \in OnBranch(Len(stack))
            \/ /\ ~IsComplex(heap[propSchema])
               /\ heap[propSchema].type = "array"
               /\ Has(heap[propSchema], "items")
               /\ heap[propSchema].items \in OnBranch(Len(stack))}

\* C29: when a property of an object refers, directly or as the item of its
\* array, to a node that is already on the branch, flatten emits the one
\* record of the property itself and no record of a field below it.
BackReferenceGivesOneRecord ==
    ObjectFinished =>
        \A i \in BackProperties :
            LET name == heap[Top.schema].properties[i].name
                about == About(Top, name, Top.results)
            IN  /\ Len(about) = 1
                /\ SummaryOf(Top, name, about[1])

\* An object below the root call has gone through a property that refers to
\* a node of the branch above it and a property whose array has such a node
\* as its item.
BackReferenceGivesOneRecordWitness ==
    /\ ObjectFinished
    /\ Len(stack) > 1
    /\ \E i, j \in BackProperties :
          LET a == heap[Top.schema].properties[i].schema
              b == heap[Top.schema].properties[j].schema
          IN  /\ a \in OnBranch(Len(stack) - 1)
              /\ b \notin OnBranch(Len(stack))
              /\ heap[b].items \in OnBranch(Len(stack))

(***************************************************************************)
(* The parameters that are located elsewhere.                              *)
(***************************************************************************)
\* The parameter of the document that a parameter record stands for.
ParameterOf(record) ==
    LET item == api.paths[CHOOSE p \in 1..Len(api.paths) : api.paths[p].url = record.path]
        method == CHOOSE m \in DOMAIN item.operations : toUpperCase(m) = record.method
        all == item.parameters \o item.operations[method].parameters
    IN  all[CHOOSE k \in 1..Len(all) : all[k].name = record.fieldName]

\* The records of the parameters whose `in` is none of the four: the index
\* of each.
Elsewhere ==
    {i \in 1..Len(fieldInstances) :
        /\ fieldInstances[i].origin.branch = "parameter"
        /\ ParameterOf(fieldInstances[i]).in \notin {"query", "header", "path", "cookie"}}

KnownLocations == ParameterLocations \cup {"request_body", "response_body"}

\* The record has the location of its parameter, as it is written.
ElsewhereVerbatim ==
    \A i \in Elsewhere :
        fieldInstances[i].location = ParameterOf(fieldInstances[i]).in

\* In the sorted list the record is before every record of its path and
\* method whose location is one of the six known tags.
ElsewhereFirst ==
    Sorted =>
        \A i \in Elsewhere :
            \A j \in 1..Len(fieldInstances) :
                /\ SameOperation(fieldInstances[i], fieldInstances[j])
                /\ fieldInstances[j].location \in KnownLocations
                => i < j

\* C30, as claimed: the record of a parameter whose location is none of
\* query, header, path, cookie has that location, verbatim; in the sorted
\* list it is before every record of its path and method whose location is
\* one of the six known tags, path_param included.
ElsewhereVerbatimAndFirst == ElsewhereVerbatim /\ ElsewhereFirst
====
